---- MODULE Spec2Model ----
(***************************************************************************)
(* Frame synchronisation (DrawFrame, swapchain recreation, resize          *)
(* notifications) and the command-buffer recording state machine of        *)
(* VulkanSandbox.                                                          *)
(*                                                                         *)
(* Two renderers live in the repository and both are modelled:             *)
(*   "VulkanRenderer"           Source/Renderer/Private/Renderer.cpp       *)
(*   "HelloTriangleApplication" Source/Main.cpp                            *)
(* They share DrawFrame line by line and differ in the CHECK_NO_ENTRY      *)
(* calls, in RecreateSwapChain (a stub in VulkanRenderer) and in the       *)
(* resize callback.                                                        *)
(*                                                                         *)
(* The frame loop starts in the state Init() leaves, in a debug and in a   *)
(* release build; where Init halts at a result check no frame is drawn.    *)
(* Selection functions, device memory, the command buffer and the set-up   *)
(* and tear-down routines have specifications of their own.                *)
(***************************************************************************)
EXTENDS Integers, Sequences, FiniteSets

(***************************************************************************)
(* Program constants                                                       *)
(***************************************************************************)
MAX_FRAMES_IN_FLIGHT == 2

VK_NULL_HANDLE == 0

SCREEN_WIDTH == 800

SCREEN_HEIGHT == 600

(***************************************************************************)
(* Bounds of the model                                                     *)
(***************************************************************************)
\* DrawFrame calls per behaviour
MaxFrames == 3

\* largest swapchain image count the platform hands out
MaxImages == 3

\* resize notifications that report a new size, per behaviour
MaxResizes == 2

\* Begin/End/Reset calls on the command buffer per behaviour
MaxOps == 3

\* physical devices vkEnumeratePhysicalDevices reports
MaxDevices == 2

(***************************************************************************)
(* Value sets                                                              *)
(***************************************************************************)
Impls == {"VulkanRenderer", "HelloTriangleApplication"}

\* NDEBUG undefined ("debug") or defined ("release")
Builds == {"debug", "release"}

Slots == 0 .. (MAX_FRAMES_IN_FLIGHT - 1)

\* VkResult values the modelled calls return
AcquireResults ==
    {"VK_SUCCESS", "VK_SUBOPTIMAL_KHR", "VK_ERROR_OUT_OF_DATE_KHR", "VK_ERROR_DEVICE_LOST"}

PresentResults ==
    {"VK_SUCCESS", "VK_SUBOPTIMAL_KHR", "VK_ERROR_OUT_OF_DATE_KHR", "VK_ERROR_DEVICE_LOST"}

CmdApiResults == {"VK_SUCCESS", "VK_ERROR_OUT_OF_HOST_MEMORY"}

VARIABLES
    impl,                       \* which renderer runs
    build,                      \* debug or release build
    proc,                       \* "running", "halted" (failed check), "exited" (exit/throw), "crashed"
    pc,                         \* position of the CPU thread inside DrawFrame
    current_frame_,             \* frame-slot index
    fences,                     \* inflight_frame_fences_: slot -> signaled?
    inflight_images_,           \* per image: VK_NULL_HANDLE or the handle of a slot fence
    numImages,                  \* swap_chain_images_.size(): also the size of the per-image
                                \* uniform buffers, descriptor sets and command buffers
    pending,                    \* submissions the GPU has not completed yet
    was_frame_buffer_resized_,  \* pending-resize flag
    framebuffer_size_,          \* VulkanRenderer's cached <<width, height>>
    windowSize,                 \* the window's drawable size <<width, height>>
    numResizes,                 \* notifications of a new size delivered so far
    swapExtent,                 \* extent the current swapchain was built with
    frames,                     \* DrawFrame calls started so far
    call,                       \* what the current / last DrawFrame call did
    handle_,                    \* VulkanCommandBuffer::handle_
    is_recording_,              \* VulkanCommandBuffer::is_recording_
    hist,                       \* the calls made on the command buffer, with their outcome
    selArgs,                    \* inputs of the last call of a selection function
    selResult,                  \* what that call returned
    memOwner,                   \* the class that owns the device memory
    mapped_addr_,               \* Buffer::mapped_addr_: TRUE when not nullptr
    liveMappings,               \* CPU pointers to the memory handed out and not yet unmapped
    memHist,                    \* the Map / Unmap calls made, with their outcome
    routine,                    \* the set-up / tear-down routine that runs, with its inputs
    ip,                         \* index of the routine's next step
    alive,                      \* Vulkan objects and C++ objects created and not destroyed
    gpuBusy,                    \* command buffers submitted and not completed by the GPU
    mappedMem,                  \* device memory objects that are mapped
    trace                       \* the routine's steps executed so far

frameVars ==
    <<impl, proc, pc, current_frame_, fences, inflight_images_, numImages, pending,
      was_frame_buffer_resized_, framebuffer_size_, windowSize, numResizes, swapExtent,
      frames, call>>

cmdVars == <<handle_, is_recording_, hist>>

selVars == <<selArgs, selResult>>

memVars == <<memOwner, mapped_addr_, liveMappings, memHist>>

seqVars == <<routine, ip, alive, gpuBusy, mappedMem, trace>>

utilVars == <<selVars, memVars, seqVars>>

vars == <<frameVars, build, cmdVars, utilVars>>

(***************************************************************************)
(* Checks.  CHECK, CHECK_MSG and CHECK_NO_ENTRY are used all over the      *)
(* sources but their header is not part of the source tree; section 7 of   *)
(* the specification gives their behaviour: a failed check halts           *)
(* execution in debug builds.  Outside debug builds a check never halts;   *)
(* whether its argument is still evaluated is left open (CheckChoices).    *)
(***************************************************************************)
CheckHalts(b, expr) == b = "debug" /\ ~expr

\* CHECK_NO_ENTRY() is a check that always fails
CheckNoEntryHalts(b) == CheckHalts(b, FALSE)

\* VERIFY_VK_RESULT(call): { r = call; CHECK_MSG(r != VK_SUCCESS, ...) } unless NDEBUG
VerifyVkResultHalts(b, r) ==
    IF b = "debug" THEN CheckHalts(b, r # "VK_SUCCESS") ELSE FALSE

(***************************************************************************)
(* VulkanCommandBuffer: its constructor and Begin / End / Reset.  Each     *)
(* operator gives the outcome of one call: the value returned ("HALT" when *)
(* a failed check stopped execution before the return, "CRASH" when a call *)
(* on a null handle killed the process), and is_recording_ afterwards.     *)
(* `h` is handle_, `r` is what the wrapped Vulkan call returns when it is  *)
(* reached.  A Vulkan call on VK_NULL_HANDLE (possible where the check in  *)
(* front of it is compiled out) is undefined: `ub` says whether the        *)
(* process dies or the driver returns r.                                   *)
(***************************************************************************)
Outcome(ret, rec) == [ret |-> ret, rec |-> rec]

\* the handle vkAllocateCommandBuffers writes when it succeeds
AllocatedHandle == VK_NULL_HANDLE + 1

(* The constructor: VERIFY_VK_RESULT(vkAllocateCommandBuffers(...)) with    *)
(* result r; handle_ stays VK_NULL_HANDLE when the allocation fails.        *)
Construct(b, r) ==
    [ret |-> IF VerifyVkResultHalts(b, r) THEN "HALT" ELSE "returned",
     handle |-> IF r = "VK_SUCCESS" THEN AllocatedHandle ELSE VK_NULL_HANDLE]

\* a Vulkan call reached with handle h
VkCallOnHandle(h, ub, ret) == IF h = VK_NULL_HANDLE /\ ub = "crash" THEN "CRASH" ELSE ret

\* mutant: Begin without the is_recording_ guard
Begin_NoGuard(b, h, rec, r, ub) ==
    IF CheckHalts(b, h # VK_NULL_HANDLE)
    THEN Outcome("HALT", rec)
    ELSE IF VkCallOnHandle(h, ub, r) = "CRASH"
         THEN Outcome("CRASH", rec)
         ELSE IF r # "VK_SUCCESS"
              THEN IF VerifyVkResultHalts(b, r)
                   THEN Outcome("HALT", rec)
                   ELSE Outcome(r, rec)
              ELSE Outcome("VK_SUCCESS", TRUE)

Begin(b, h, rec, r, ub) ==
    IF CheckHalts(b, h # VK_NULL_HANDLE)
    THEN Outcome("HALT", rec)
    ELSE IF rec
         THEN IF CheckHalts(b, FALSE)
              THEN Outcome("HALT", rec)
              ELSE Outcome("VK_NOT_READY", rec)
         ELSE IF VkCallOnHandle(h, ub, r) = "CRASH"
              THEN Outcome("CRASH", rec)
              ELSE IF r # "VK_SUCCESS"
                   THEN IF VerifyVkResultHalts(b, r)
                        THEN Outcome("HALT", rec)
                        ELSE Outcome(r, rec)
                   ELSE Outcome("VK_SUCCESS", TRUE)

\* mutant: End that leaves is_recording_ set
EndRecording_KeepsFlag(b, h, rec, r, ub) ==
    IF CheckHalts(b, h # VK_NULL_HANDLE)
    THEN Outcome("HALT", rec)
    ELSE IF VkCallOnHandle(h, ub, r) = "CRASH"
         THEN Outcome("CRASH", rec)
         ELSE IF VerifyVkResultHalts(b, r)
              THEN Outcome("HALT", rec)
              ELSE Outcome(r, rec)

\* End on a Recording buffer: vkEndCommandBuffer, its result check, is_recording_ = false
EndRecording(b, h, rec, r, ub) ==
    IF CheckHalts(b, h # VK_NULL_HANDLE)
    THEN Outcome("HALT", rec)
    ELSE IF VkCallOnHandle(h, ub, r) = "CRASH"
         THEN Outcome("CRASH", rec)
         ELSE IF VerifyVkResultHalts(b, r)
              THEN Outcome("HALT", rec)
              ELSE Outcome(r, FALSE)

\* mutant: End that clears is_recording_ before it looks at it
End_NoGuard(b, h, rec, r, ub) ==
    IF CheckHalts(b, h # VK_NULL_HANDLE)
    THEN Outcome("HALT", rec)
    ELSE IF VkCallOnHandle(h, ub, r) = "CRASH"
         THEN Outcome("CRASH", rec)
         ELSE IF VerifyVkResultHalts(b, r)
              THEN Outcome("HALT", rec)
              ELSE Outcome(r, FALSE)

End(b, h, rec, r, ub) ==
    IF rec = FALSE
    THEN IF CheckHalts(b, FALSE)
         THEN Outcome("HALT", rec)
         ELSE Outcome("VK_NOT_READY", rec)
    ELSE EndRecording(b, h, rec, r, ub)

\* Reset returns vkResetCommandBuffer's result and touches no member
Reset(b, h, rec, r, ub) ==
    IF CheckHalts(b, h # VK_NULL_HANDLE)
    THEN Outcome("HALT", rec)
    ELSE Outcome(VkCallOnHandle(h, ub, r), rec)

CmdOutcome(op, b, h, rec, r, ub) ==
    CASE op = "Begin" -> Begin(b, h, rec, r, ub)
      [] op = "End"   -> End(b, h, rec, r, ub)
      [] op = "Reset" -> Reset(b, h, rec, r, ub)

\* one call on the command buffer
CmdCall(op, r, ub) ==
    /\ proc = "running"
    /\ Len(hist) < MaxOps
    /\ (ub = "crash" =>
            CmdOutcome(op, build, handle_, is_recording_, r, ub).ret = "CRASH")
    /\ LET o == CmdOutcome(op, build, handle_, is_recording_, r, ub)
       IN /\ is_recording_' = o.rec
          /\ hist' = Append(hist, [op |-> op, api |-> r, before |-> is_recording_,
                                   ret |-> o.ret, after |-> o.rec])
          /\ proc' = CASE o.ret = "HALT" -> "halted"
                        [] o.ret = "CRASH" -> "crashed"
                        [] OTHER -> proc
    /\ handle_' = handle_
    /\ UNCHANGED utilVars
    /\ UNCHANGED <<impl, build, pc, current_frame_, fences, inflight_images_, numImages,
                   pending, was_frame_buffer_resized_, framebuffer_size_, windowSize,
                   numResizes, swapExtent, frames, call>>

UbOutcomes == {"crash", "continue"}

CmdBeginCall == \E r \in CmdApiResults, ub \in UbOutcomes : CmdCall("Begin", r, ub)

CmdEndCall == \E r \in CmdApiResults, ub \in UbOutcomes : CmdCall("End", r, ub)

CmdResetCall == \E r \in CmdApiResults, ub \in UbOutcomes : CmdCall("Reset", r, ub)


(***************************************************************************)
(* Frame synchronisation                                                   *)
(***************************************************************************)
\* the handle of the fence of frame slot s (any value other than VK_NULL_HANDLE)
FenceHandle(s) == s + 1

SlotOfFence(h) == h - 1

FenceRefs == {VK_NULL_HANDLE} \cup {FenceHandle(s) : s \in Slots}

\* a value that is the handle of no fence
InvalidHandle == FenceHandle(MAX_FRAMES_IN_FLIGHT)

(* What a read of inflight_images_[image_index] past the end of the vector  *)
(* can find in the memory behind the array: VK_NULL_HANDLE, the handle of a *)
(* slot fence, or a value that is no handle.                                *)
BehindArray == FenceRefs \cup {InvalidHandle}

\* the k-th size the window is given: each larger than the one before
SizeAfter(k) == <<SCREEN_WIDTH + k, SCREEN_HEIGHT + k>>

\* the framebuffer size of a minimised window
Minimised == <<0, 0>>

\* the size a notification reports: 0 x 0, or the k-th size of the window
NotifiedSize(k, minimise) == IF minimise THEN Minimised ELSE SizeAfter(k)

(* Which index DrawFrame uses for which resource: cf is current_frame_,     *)
(* img the image index vkAcquireNextImageKHR returned.                      *)
ThrottleFenceIndex(cf) == cf

ImageAvailableSemIndex(cf) == cf

WaitSemIndex(cf, img) == cf

\* mutant: the render-finished semaphore picked by image index
SignalSemIndex_ByImage(cf, img) == img

SignalSemIndex(cf, img) == cf

SubmitFenceIndex(cf, img) == cf

InflightImageIndex(cf, img) == img

UniformBufferIndex(cf, img) == img

CommandBufferIndex(cf, img) == img

\* FillCommandBuffers: command buffer i binds descriptor set i
DescriptorSetOfCommandBuffer(i) == i

\* mutant: DrawFrame without the wait on the slot's fence
ThrottleWaitDone_NoWait(f, cf) == TRUE

\* vkWaitForFences(inflight_frame_fences_[current_frame_]) returns
ThrottleWaitDone(f, cf) == f[ThrottleFenceIndex(cf)]

(* What vkWaitForFences, called with an unlimited timeout, does with a     *)
(* value that is no handle: the process dies, the call returns             *)
(* ("continue"), or it never returns since no fence stands behind the      *)
(* value and nothing will signal it.                                        *)
BadWaitOutcomes == UbOutcomes \cup {"never"}

(* vkWaitForFences(inflight_images_[image_index]) is over: the fence is     *)
(* signaled, the wait is skipped for VK_NULL_HANDLE, or the call on a value *)
(* that is no handle has come to its end, which is badWait.                 *)
HazardWaitDone(f, ref, badWait) ==
    CASE ref = VK_NULL_HANDLE -> TRUE
      [] ref = InvalidHandle -> badWait # "never"
      [] OTHER -> f[SlotOfFence(ref)]

\* mutant: the frame index advanced without the modulo
NextFrame_NoWrap(cf) == cf + 1

\* current_frame_ = (++current_frame_) % MAX_FRAMES_IN_FLIGHT
NextFrame(cf) == (cf + 1) % MAX_FRAMES_IN_FLIGHT

\* RecreateSwapChain has a body in Main.cpp only: VulkanRenderer's is
\* CHECK_NO_ENTRY() followed by a commented-out body
RecreateHasBody(i) == i = "HelloTriangleApplication"

\* the CHECK_NO_ENTRY() calls in VulkanRenderer::DrawFrame; Main.cpp has none
DrawFrameCheckNoEntryHalts(i, b) == i = "VulkanRenderer" /\ CheckNoEntryHalts(b)

(* What DrawFrame does with vkAcquireNextImageKHR's result:                 *)
(* next is "hazard" (go on drawing), "recreate" (run RecreateSwapChain,     *)
(* then return), "return" (return at once) or "none" (execution stopped).   *)
AfterAcquire(i, b, result) ==
    IF result = "VK_ERROR_OUT_OF_DATE_KHR"
    THEN IF DrawFrameCheckNoEntryHalts(i, b)
         THEN [proc |-> "halted", next |-> "none", called |-> 0]
         ELSE IF RecreateHasBody(i)
              THEN [proc |-> "running", next |-> "recreate", called |-> 1]
              ELSE [proc |-> "running", next |-> "return", called |-> 1]
    ELSE IF result # "VK_SUCCESS" /\ result # "VK_SUBOPTIMAL_KHR"
         THEN IF DrawFrameCheckNoEntryHalts(i, b)
              THEN [proc |-> "halted", next |-> "none", called |-> 0]
              ELSE [proc |-> "exited", next |-> "none", called |-> 0]
         ELSE [proc |-> "running", next |-> "hazard", called |-> 0]

(* What DrawFrame does after vkQueuePresentKHR: next is "advance" (advance  *)
(* the frame index and return), "recreate" (run RecreateSwapChain, then     *)
(* advance) or "none"; clear tells whether was_frame_buffer_resized_ is     *)
(* reset.                                                                   *)
AfterPresent(i, b, result, resized) ==
    IF result = "VK_ERROR_OUT_OF_DATE_KHR" \/ result = "VK_SUBOPTIMAL_KHR" \/ resized
    THEN IF DrawFrameCheckNoEntryHalts(i, b)
         THEN [proc |-> "halted", next |-> "none", called |-> 0, clear |-> FALSE]
         ELSE IF RecreateHasBody(i)
              THEN [proc |-> "running", next |-> "recreate", called |-> 1, clear |-> TRUE]
              ELSE [proc |-> "running", next |-> "advance", called |-> 1, clear |-> TRUE]
    ELSE IF result # "VK_SUCCESS"
         THEN IF DrawFrameCheckNoEntryHalts(i, b)
              THEN [proc |-> "halted", next |-> "none", called |-> 0, clear |-> FALSE]
              ELSE [proc |-> "exited", next |-> "none", called |-> 0, clear |-> FALSE]
         ELSE [proc |-> "running", next |-> "advance", called |-> 0, clear |-> FALSE]

\* how a DrawFrame call's acquisition ended, as the call record keeps it
AcquireKind(result) ==
    CASE result = "VK_ERROR_OUT_OF_DATE_KHR" -> "out_of_date"
      [] result \in {"VK_SUCCESS", "VK_SUBOPTIMAL_KHR"} -> "image"
      [] OTHER -> "error"

\* the record of a DrawFrame call that has done nothing yet
NoCall ==
    [entryFrame |-> 0, acquire |-> "none", acquired |-> FALSE, image |-> 0,
     throttleFence |-> 0, imageAvailableSem |-> 0, waitSem |-> 0, signalSem |-> 0,
     submitFence |-> 0, presentWaitSem |-> 0, inflightIdx |-> 0, ubo |-> 0, cmdBuf |-> 0,
     descriptorSet |-> 0, uboWritten |-> FALSE, submitted |-> FALSE, presented |-> FALSE,
     presentStale |-> FALSE, observedResize |-> FALSE, stale |-> FALSE, hazard |-> FALSE,
     recreateCalls |-> 0, recreations |-> 0, extentUsed |-> <<0, 0>>,
     notified |-> <<0, 0>>, resume |-> "none", returned |-> FALSE, waits |-> {},
     waitStages |-> {}, steps |-> <<>>, oneShot |-> "none", inWaitEvents |-> FALSE,
     hazardRef |-> VK_NULL_HANDLE, badWait |-> "continue"]

\* the calls DrawFrame makes up to the handling of vkAcquireNextImageKHR's result
AcquireSteps(called) ==
    <<"vkAcquireNextImageKHR">> \o (IF called > 0 THEN <<"RecreateSwapChain">> ELSE <<>>)

\* mutant: the swapchain recreated before the frame is presented
PresentSteps_RecreateFirst(called) ==
    (IF called > 0 THEN <<"RecreateSwapChain">> ELSE <<>>) \o <<"vkQueuePresentKHR">>

\* the calls DrawFrame makes from vkQueuePresentKHR on: RecreateSwapChain follows
\* the present request
PresentSteps(called) ==
    <<"vkQueuePresentKHR">> \o (IF called > 0 THEN <<"RecreateSwapChain">> ELSE <<>>)

\* mutant: the semaphore wait placed at the end of the pipeline
WaitDstStageMask_BottomOfPipe == {"BOTTOM_OF_PIPE"}

\* wait_stages[], the pWaitDstStageMask of the submission
WaitDstStageMask == {"COLOR_ATTACHMENT_OUTPUT"}

(* the render pass's dependency from VK_SUBPASS_EXTERNAL to subpass 0, which *)
(* places the layout transition of the attachments                          *)
SubpassDependency ==
    [srcSubpass |-> "VK_SUBPASS_EXTERNAL", dstSubpass |-> 0,
     srcStageMask |-> {"COLOR_ATTACHMENT_OUTPUT", "EARLY_FRAGMENT_TESTS"},
     srcAccessMask |-> {},
     dstStageMask |-> {"COLOR_ATTACHMENT_OUTPUT", "EARLY_FRAGMENT_TESTS"},
     dstAccessMask |-> {"COLOR_ATTACHMENT_WRITE", "DEPTH_STENCIL_ATTACHMENT_WRITE"}]

\* the host waits DrawFrame performs before vkAcquireNextImageKHR
ThrottleWaits == {"vkWaitForFences"}

\* mutant: the queue is drained after every present
SubmitPresentWaits_QueueIdle(ref) == {"vkWaitForFences", "vkQueueWaitIdle"}

(* the host waits DrawFrame performs from the acquired image to its return, *)
(* swapchain recreation aside: the wait on the image's fence, skipped for   *)
(* VK_NULL_HANDLE; vkQueueSubmit and vkQueuePresentKHR do not block         *)
SubmitPresentWaits(ref) == IF ref = VK_NULL_HANDLE THEN {} ELSE {"vkWaitForFences"}

\* the host wait at the start of HelloTriangleApplication::RecreateSwapChain
RecreateSwapChainWaits == {"vkDeviceWaitIdle"}

\* the host wait of CreateDepthResources: TransitionImageLayout ends with
\* EndSingleTimeCommands, which waits for the graphics queue
CreateDepthResourcesWaits == {"vkQueueWaitIdle"}

\* the host waits of Cleanup: VulkanDevice::WaitUntilIdle is vkDeviceWaitIdle
CleanupWaits == {"vkDeviceWaitIdle"}

(* A notification reports 0 x 0 when a window that is not minimised gets   *)
(* minimised.  GLFW passes it to Main.cpp's callback; VulkanApplication's   *)
(* MainLoop forwards SDL_WINDOWEVENT_RESIZED only, which SDL does not send  *)
(* for a window that is minimised.  A window is minimised only while the    *)
(* bound on the sizes leaves room for the one that restores it.             *)
CanMinimise ==
    /\ impl = "HelloTriangleApplication"
    /\ windowSize # Minimised
    /\ numResizes < MaxResizes

(* HelloTriangleApplication::RecreateSwapChain starts by reading the        *)
(* framebuffer size; while a read gave 0 x 0 it reads the size again and    *)
(* calls glfwWaitEvents.  It stands in glfwWaitEvents when the size it read *)
(* last is 0 x 0.                                                           *)
WaitsForEvents(sizeRead) == sizeRead = Minimised

(* DrawFrame, first part: the throttle wait on the slot's fence, then       *)
(* vkAcquireNextImageKHR and the handling of its result, up to the read of *)
(* inflight_images_[image_index].  The platform picks the result and the    *)
(* image index.  The vector keeps the size CreateSyncObjects gave it; for   *)
(* an index past its end the read gives behind, whatever lies behind the    *)
(* array, and badWait is what the wait on it does when it is no handle.     *)
DrawFrameAcquire(result, idx, behind, badWait) ==
    /\ proc = "running"
    /\ pc = "idle"
    /\ frames < MaxFrames
    /\ ThrottleWaitDone(fences, current_frame_)
    /\ idx \in 0 .. (numImages - 1)
    /\ (result \notin {"VK_SUCCESS", "VK_SUBOPTIMAL_KHR"} => idx = 0)
    /\ behind \in BehindArray
    /\ badWait \in BadWaitOutcomes
    /\ (behind # InvalidHandle => badWait = "continue")
    /\ LET a == AfterAcquire(impl, build, result)
           k == InflightImageIndex(current_frame_, idx) + 1
           inBounds == k \in DOMAIN inflight_images_
           c == [NoCall EXCEPT !.entryFrame = current_frame_,
                               !.throttleFence = ThrottleFenceIndex(current_frame_),
                               !.imageAvailableSem = ImageAvailableSemIndex(current_frame_),
                               !.acquire = AcquireKind(result),
                               !.stale = (result = "VK_ERROR_OUT_OF_DATE_KHR"),
                               !.recreateCalls = a.called,
                               !.waits = ThrottleWaits,
                               !.steps = AcquireSteps(a.called)]
       IN /\ (a.next # "hazard" \/ inBounds => behind = VK_NULL_HANDLE)
          /\ proc' = a.proc
          /\ pc' = CASE a.next = "hazard" -> "hazard"
                     [] a.next = "recreate" -> "recreate"
                     [] OTHER -> "idle"
          /\ call' = CASE a.next = "hazard" ->
                            [c EXCEPT !.acquired = TRUE, !.image = idx,
                                      !.hazardRef = IF inBounds
                                                    THEN inflight_images_[k]
                                                    ELSE behind,
                                      !.badWait = badWait]
                       [] a.next = "recreate" ->
                            [c EXCEPT !.resume = "return",
                                      !.inWaitEvents = WaitsForEvents(windowSize)]
                       [] a.next = "return" -> [c EXCEPT !.returned = TRUE]
                       [] OTHER -> c
    /\ frames' = frames + 1
    /\ UNCHANGED utilVars
    /\ UNCHANGED <<impl, build, current_frame_, fences, inflight_images_, numImages, pending,
                   was_frame_buffer_resized_, framebuffer_size_, windowSize, numResizes,
                   swapExtent, cmdVars>>


(* DrawFrame, second part: the wait on the fence the acquired image refers  *)
(* to is over (or was skipped); UpdateUniformData, vkResetFences,           *)
(* vkQueueSubmit, vkQueuePresentKHR and the handling of its result.  The    *)
(* call record keeps the value read for the wait only while the wait lasts. *)
(*   oob      what the write inflight_images_[image_index] = ... does when  *)
(*            the index is past the end: it hits memory the model does not  *)
(*            track ("dropped") or the process dies ("crash").              *)
(*   submitOk whether vkQueueSubmit returns VK_SUCCESS.                     *)
(*   result   what vkQueuePresentKHR returns.                               *)
DrawFrameSubmitPresent(oob, submitOk, result) ==
    /\ proc = "running"
    /\ pc = "hazard"
    /\ LET cf == current_frame_
           img == call.image
           ref == call.hazardRef
           badWait == call.badWait
           k == InflightImageIndex(cf, img) + 1
           inBounds == k \in DOMAIN inflight_images_
           u == UniformBufferIndex(cf, img)
           cb == CommandBufferIndex(cf, img)
           sf == SubmitFenceIndex(cf, img)
           hazardNow == \E p \in pending : p.ubo = u \/ p.cmdBuf = cb
           c1 == [call EXCEPT !.inflightIdx = k - 1, !.ubo = u, !.uboWritten = TRUE,
                              !.hazard = hazardNow, !.hazardRef = VK_NULL_HANDLE,
                              !.badWait = "continue",
                              !.waits = @ \cup SubmitPresentWaits(ref)]
           c2 == [c1 EXCEPT !.waitSem = WaitSemIndex(cf, img),
                            !.waitStages = WaitDstStageMask,
                            !.steps = Append(@, "vkQueueSubmit"),
                            !.signalSem = SignalSemIndex(cf, img),
                            !.submitFence = sf, !.cmdBuf = cb,
                            !.descriptorSet = DescriptorSetOfCommandBuffer(cb),
                            !.submitted = TRUE]
           a == AfterPresent(impl, build, result, was_frame_buffer_resized_)
           c3 == [c2 EXCEPT !.presentWaitSem = SignalSemIndex(cf, img),
                            !.presented = TRUE,
                            !.presentStale = (result = "VK_ERROR_OUT_OF_DATE_KHR"
                                               \/ result = "VK_SUBOPTIMAL_KHR"),
                            !.observedResize = was_frame_buffer_resized_,
                            !.stale = (result = "VK_ERROR_OUT_OF_DATE_KHR"
                                        \/ result = "VK_SUBOPTIMAL_KHR"
                                        \/ was_frame_buffer_resized_),
                            !.recreateCalls = a.called,
                            !.steps = @ \o PresentSteps(a.called)]
       IN /\ HazardWaitDone(fences, ref, badWait)
          /\ oob \in {"dropped", "crash"}
          /\ (inBounds \/ badWait = "crash" => oob = "dropped")
          /\ (badWait = "crash" \/ oob = "crash" \/ ~submitOk => result = "VK_SUCCESS")
          /\ (badWait = "crash" => submitOk)
          /\ IF badWait = "crash" \/ oob = "crash"
             THEN /\ proc' = "crashed"
                  /\ call' = call
                  /\ UNCHANGED <<pc, current_frame_, fences, inflight_images_, pending,
                                 was_frame_buffer_resized_>>
             ELSE /\ inflight_images_' =
                        IF inBounds
                        THEN [inflight_images_ EXCEPT ![k] = FenceHandle(cf)]
                        ELSE inflight_images_
                  /\ fences' = [fences EXCEPT ![sf] = FALSE]
                  /\ IF ~submitOk
                     THEN /\ proc' = "exited"
                          /\ call' = c2
                          /\ UNCHANGED <<pc, current_frame_, pending,
                                         was_frame_buffer_resized_>>
                     ELSE /\ pending' = pending \cup
                                {[slot |-> sf, image |-> img, ubo |-> u, cmdBuf |-> cb,
                                  seq |-> frames]}
                          /\ proc' = a.proc
                          /\ was_frame_buffer_resized_' =
                                IF a.clear THEN FALSE ELSE was_frame_buffer_resized_
                          /\ pc' = IF a.next = "recreate" THEN "recreate" ELSE "idle"
                          /\ current_frame_' =
                                IF a.next = "advance" THEN NextFrame(cf) ELSE cf
                          /\ call' = CASE a.next = "advance" -> [c3 EXCEPT !.returned = TRUE]
                                       [] a.next = "recreate" ->
                                            [c3 EXCEPT !.resume = "advance",
                                                       !.inWaitEvents =
                                                            WaitsForEvents(windowSize)]
                                       [] OTHER -> c3
    /\ UNCHANGED utilVars
    /\ UNCHANGED <<impl, build, numImages, framebuffer_size_, windowSize, numResizes,
                   swapExtent, frames, cmdVars>>

\* vkDeviceWaitIdle returns
DeviceIdle(pend) == pend = {}

(* A framebuffer-size notification delivered while RecreateSwapChain stands *)
(* in glfwWaitEvents: FramebufferResizeCallback sets the flag DrawFrame may *)
(* just have cleared, and glfwWaitEvents returns.  The loop tests the size  *)
(* it read before the wait: when that was 0 x 0 it reads the size again     *)
(* (the notified one) and calls glfwWaitEvents once more; otherwise it is   *)
(* left, with whatever size the window has now.                             *)
RecreateSwapChainWaitEvents(minimise) ==
    /\ proc = "running"
    /\ pc = "recreate"
    /\ call.inWaitEvents
    /\ numResizes < MaxResizes
    /\ minimise => CanMinimise
    /\ numResizes' = IF minimise THEN numResizes ELSE numResizes + 1
    /\ windowSize' = NotifiedSize(numResizes + 1, minimise)
    /\ was_frame_buffer_resized_' = TRUE
    /\ call' = [call EXCEPT !.inWaitEvents = WaitsForEvents(windowSize)]
    /\ UNCHANGED utilVars
    /\ UNCHANGED <<impl, build, proc, pc, current_frame_, fences, inflight_images_,
                   numImages, pending, framebuffer_size_, swapExtent, frames, cmdVars>>

\* what vkCreateSwapchainKHR does with an image extent of 0 x 0, which is not a
\* valid extent: the process dies, the call fails (CreateSwapChain throws) or
\* the driver goes on
ZeroExtentOutcomes == {"crash", "throw", "continue"}

(* HelloTriangleApplication::RecreateSwapChain, entered from DrawFrame, up  *)
(* to the wait inside CreateDepthResources.  When it stands in              *)
(* glfwWaitEvents with a window that is no longer minimised, an event other *)
(* than a resize ends the wait and the loop.  Then vkDeviceWaitIdle,        *)
(* CleanUpSwapChain, and the swapchain (for the window's current size and   *)
(* an image count n the platform picks), its image views, the render pass,  *)
(* the pipeline, the colour resources and the depth image are built, and    *)
(* TransitionImageLayout submits a one-shot command buffer for the depth    *)
(* image.  inflight_images_ is not among the things rebuilt.  zeroExtent    *)
(* is the outcome of vkCreateSwapchainKHR when the window was minimised     *)
(* again during the last wait; CreateSwapChain has stored the extent in     *)
(* swap_chain_extent_ before it makes that call.                            *)
RecreateSwapChain(n, zeroExtent) ==
    /\ proc = "running"
    /\ pc = "recreate"
    /\ call.inWaitEvents => windowSize # Minimised
    /\ DeviceIdle(pending)
    /\ n \in 1 .. MaxImages
    /\ zeroExtent \in ZeroExtentOutcomes
    /\ windowSize # Minimised => zeroExtent = "continue"
    /\ swapExtent' = windowSize
    /\ IF zeroExtent = "continue"
       THEN /\ numImages' = n
            /\ call' = [call EXCEPT !.extentUsed = windowSize,
                                     !.notified = NotifiedSize(numResizes,
                                                               windowSize = Minimised),
                                     !.oneShot = "pending",
                                     !.inWaitEvents = FALSE,
                                     !.waits = @ \cup RecreateSwapChainWaits]
            /\ pc' = "recreate_depth"
            /\ proc' = proc
       ELSE /\ n = 1
            /\ call' = [call EXCEPT !.inWaitEvents = FALSE,
                                     !.waits = @ \cup RecreateSwapChainWaits]
            /\ pc' = "create_swapchain"
            /\ proc' = IF zeroExtent = "throw" THEN "exited" ELSE "crashed"
            /\ UNCHANGED numImages
    /\ UNCHANGED utilVars
    /\ UNCHANGED <<impl, build, current_frame_, fences, inflight_images_, pending,
                   was_frame_buffer_resized_, framebuffer_size_, windowSize, numResizes,
                   frames, cmdVars>>

\* The GPU completes the one-shot submission of TransitionImageLayout.
GpuCompleteOneShot ==
    /\ proc = "running"
    /\ call.oneShot = "pending"
    /\ call' = [call EXCEPT !.oneShot = "done"]
    /\ UNCHANGED utilVars
    /\ UNCHANGED <<impl, build, proc, pc, current_frame_, fences, inflight_images_,
                   numImages, pending, was_frame_buffer_resized_, framebuffer_size_,
                   windowSize, numResizes, swapExtent, frames, cmdVars>>

(* The rest of RecreateSwapChain: vkQueueWaitIdle in EndSingleTimeCommands  *)
(* returns, then the framebuffers, uniform buffers, descriptor pool and     *)
(* sets and the command buffers are built for the new image count.          *)
(* DrawFrame then returns (after an out-of-date acquire) or advances the    *)
(* frame index and returns (after present).                                 *)
RecreateSwapChainFinish ==
    /\ proc = "running"
    /\ pc = "recreate_depth"
    /\ call.oneShot = "done"
    /\ current_frame_' =
          IF call.resume = "advance" THEN NextFrame(current_frame_) ELSE current_frame_
    /\ call' = [call EXCEPT !.recreations = @ + 1, !.returned = TRUE,
                             !.waits = @ \cup CreateDepthResourcesWaits]
    /\ pc' = "idle"
    /\ UNCHANGED utilVars
    /\ UNCHANGED <<impl, build, proc, fences, inflight_images_, numImages, pending,
                   was_frame_buffer_resized_, framebuffer_size_, windowSize, numResizes,
                   swapExtent, frames, cmdVars>>

(* A resize notification, delivered by the event poll between two          *)
(* DrawFrame calls.  VulkanRenderer::OnFrameBufferResize sets the flag and  *)
(* caches the size; Main.cpp's FramebufferResizeCallback sets the flag.     *)
(* A window that is minimised reports 0 x 0.  Notifications are followed    *)
(* while DrawFrame calls are still to come.                                 *)
OnFrameBufferResize(minimise) ==
    /\ proc = "running"
    /\ pc = "idle"
    /\ frames < MaxFrames
    /\ numResizes < MaxResizes
    /\ minimise => CanMinimise
    /\ numResizes' = IF minimise THEN numResizes ELSE numResizes + 1
    /\ windowSize' = NotifiedSize(numResizes + 1, minimise)
    /\ was_frame_buffer_resized_' = TRUE
    /\ framebuffer_size_' =
          IF impl = "VulkanRenderer"
          THEN NotifiedSize(numResizes + 1, minimise)
          ELSE framebuffer_size_
    /\ UNCHANGED utilVars
    /\ UNCHANGED <<impl, build, proc, pc, current_frame_, fences, inflight_images_,
                   numImages, pending, swapExtent, frames, call, cmdVars>>

(* The main loop has ended (the window was closed between two DrawFrame    *)
(* calls): VulkanRenderer::Cleanup, or the vkDeviceWaitIdle that follows    *)
(* the loop in Main.cpp, waits for the device to be idle before anything    *)
(* is destroyed.  No DrawFrame follows.                                     *)
Cleanup ==
    /\ proc = "running"
    /\ pc = "idle"
    /\ DeviceIdle(pending)
    /\ pc' = "shutdown"
    /\ call' = [NoCall EXCEPT !.waits = CleanupWaits]
    /\ UNCHANGED utilVars
    /\ UNCHANGED <<impl, build, proc, current_frame_, fences, inflight_images_, numImages,
                   pending, was_frame_buffer_resized_, framebuffer_size_, windowSize,
                   numResizes, swapExtent, frames, cmdVars>>

\* The GPU completes one pending submission and signals the fence it was submitted with.
GpuComplete(p) ==
    /\ proc = "running"
    /\ p \in pending
    /\ pending' = pending \ {p}
    /\ fences' = [fences EXCEPT ![p.slot] = TRUE]
    /\ UNCHANGED utilVars
    /\ UNCHANGED <<impl, build, proc, pc, current_frame_, inflight_images_, numImages,
                   was_frame_buffer_resized_, framebuffer_size_, windowSize, numResizes,
                   swapExtent, frames, call, cmdVars>>

(***************************************************************************)
(* Initial states and specifications                                       *)
(***************************************************************************)
\* CreateSyncObjects creates every slot fence with VK_FENCE_CREATE_SIGNALED_BIT
FenceAfterCreate(s) == TRUE

(* Whether the initialisation that precedes the main loop returns when     *)
(* every driver call succeeds.  VulkanRenderer's passes through             *)
(* VERIFY_VK_RESULT (CreateLogicalDevice, InitPresentQueue, ...), which in  *)
(* a debug build halts on the first call that succeeds; Main.cpp tests the  *)
(* results itself.                                                          *)
InitCompletes(i, b) == ~(i = "VulkanRenderer" /\ VerifyVkResultHalts(b, "VK_SUCCESS"))

\* the frame loop's variables after Init: CreateSyncObjects has run for a swapchain
\* of n images
RendererAfterInit(i, n) ==
    /\ impl = i
    /\ pc = "idle"
    /\ current_frame_ = 0
    /\ fences = [s \in Slots |-> FenceAfterCreate(s)]
    /\ numImages = n
    /\ inflight_images_ = [j \in 1 .. n |-> VK_NULL_HANDLE]
    /\ pending = {}
    /\ was_frame_buffer_resized_ = FALSE
    /\ framebuffer_size_ = SizeAfter(0)
    /\ windowSize = SizeAfter(0)
    /\ numResizes = 0
    /\ swapExtent = SizeAfter(0)
    /\ frames = 0
    /\ call = NoCall

\* no VulkanCommandBuffer was constructed: handle_ has its default member
\* initialiser
NoCommandBuffer ==
    /\ handle_ = VK_NULL_HANDLE
    /\ is_recording_ = FALSE
    /\ hist = <<>>

\* the frame loop does not take part: its variables stay as Main.cpp's Init, which
\* completes in every build, leaves them
FrameLoopIdle ==
    /\ RendererAfterInit("HelloTriangleApplication", MAX_FRAMES_IN_FLIGHT)
    /\ proc = "running"

NoArgs == [fn |-> "none"]

NoResult == [kind |-> "none"]

\* no selection function has been called
NothingSelected ==
    /\ selArgs = NoArgs
    /\ selResult = NoResult

MemoryOwners == {"VulkanMemory", "VulkanBuffer", "Buffer"}

\* device memory after its owner's constructor: allocated, not mapped
MemoryAfterAllocation(owner) ==
    /\ memOwner = owner
    /\ mapped_addr_ = FALSE
    /\ liveMappings = 0
    /\ memHist = <<>>

NoRoutine == [name |-> "none"]

\* no set-up or tear-down routine runs
NoRoutineRunning ==
    /\ routine = NoRoutine
    /\ ip = 1
    /\ alive = {}
    /\ gpuBusy = {}
    /\ mappedMem = {}
    /\ trace = <<>>

(* The main loop is about to start.  Where Init has halted nothing was      *)
(* built and no frame is ever drawn; the frame loop's variables then hold   *)
(* the values of a single image.                                            *)
Init ==
    /\ build \in Builds
    /\ \E i \in Impls, n \in 1 .. MaxImages :
          /\ RendererAfterInit(i, n)
          /\ (~InitCompletes(i, build) => n = 1)
    /\ proc = IF InitCompletes(impl, build) THEN "running" ELSE "halted"
    /\ NoCommandBuffer
    /\ NothingSelected
    /\ MemoryAfterAllocation("VulkanMemory")
    /\ NoRoutineRunning

Next ==
    \* a value is read behind the array only for an index outside it, and
    \* the wait has an outcome of its own only on a value that is no handle
    \/ \E result \in AcquireResults, idx \in 0 .. (MaxImages - 1) :
          \E behind \in (IF InflightImageIndex(current_frame_, idx) + 1 \in DOMAIN inflight_images_
                          THEN {VK_NULL_HANDLE} ELSE BehindArray) :
              \E badWait \in (IF behind = InvalidHandle
                               THEN BadWaitOutcomes ELSE {"continue"}) :
                  DrawFrameAcquire(result, idx, behind, badWait)
    \/ \E oob \in {"dropped", "crash"}, submitOk \in BOOLEAN, result \in PresentResults :
            DrawFrameSubmitPresent(oob, submitOk, result)
    \/ \E n \in 1 .. MaxImages, zeroExtent \in ZeroExtentOutcomes :
            RecreateSwapChain(n, zeroExtent)
    \/ \E minimise \in BOOLEAN : RecreateSwapChainWaitEvents(minimise)
    \/ RecreateSwapChainFinish
    \/ \E minimise \in BOOLEAN : OnFrameBufferResize(minimise)
    \/ Cleanup
    \/ \E p \in pending : GpuComplete(p)
    \/ GpuCompleteOneShot

\* the renderer's main loop against the GPU and the platform
Spec == Init /\ [][Next]_vars

\* the command buffer when its constructor has run with allocation result r
CommandBufferConstructed(r) ==
    /\ handle_ = Construct(build, r).handle
    /\ proc = IF Construct(build, r).ret = "HALT" THEN "halted" ELSE "running"
    /\ is_recording_ = FALSE
    /\ hist = <<>>

InitCmd ==
    /\ build \in Builds
    /\ RendererAfterInit("HelloTriangleApplication", MAX_FRAMES_IN_FLIGHT)
    /\ \E r \in CmdApiResults : CommandBufferConstructed(r)
    /\ NothingSelected
    /\ MemoryAfterAllocation("VulkanMemory")
    /\ NoRoutineRunning

NextCmd ==
    \/ CmdBeginCall
    \/ CmdEndCall
    \/ CmdResetCall

\* a client of one VulkanCommandBuffer
SpecCmd == InitCmd /\ [][NextCmd]_vars


(***************************************************************************)
(* Claims                                                                  *)
(***************************************************************************)

\* C1: across any sequence of DrawFrame calls, with the GPU completing work at
\* arbitrary times, the number of GPU-pending frames (submitted, fence not yet
\* signaled) never exceeds MAX_FRAMES_IN_FLIGHT.
C1_PendingFramesBounded == Cardinality(pending) <= MAX_FRAMES_IN_FLIGHT

\* more than MAX_FRAMES_IN_FLIGHT calls made, and MAX_FRAMES_IN_FLIGHT frames pending
C1_Witness ==
    /\ frames > MAX_FRAMES_IN_FLIGHT
    /\ Cardinality(pending) = MAX_FRAMES_IN_FLIGHT

\* C2: DrawFrame never writes the uniform buffer of the acquired image index nor
\* submits its command buffer while an earlier submission that used the same image
\* index is still GPU-pending.
C2_NoUseWhileImagePending == ~call.hazard

\* C3: in every DrawFrame call the image-available semaphore, the render-finished
\* semaphore and the throttle fence are selected by the frame-slot index the call
\* started with, while the uniform buffer, the command buffer with its descriptor
\* set and the in-flight fence reference are selected by the acquired image index.
C3_IndexSpacesSeparate ==
    /\ call.acquire # "none" =>
          /\ call.throttleFence = call.entryFrame
          /\ call.imageAvailableSem = call.entryFrame
    /\ call.uboWritten =>
          /\ call.inflightIdx = call.image
          /\ call.ubo = call.image
    /\ call.submitted =>
          /\ call.waitSem = call.entryFrame
          /\ call.signalSem = call.entryFrame
          /\ call.submitFence = call.entryFrame
          /\ call.cmdBuf = call.image
          /\ call.descriptorSet = call.image
    /\ call.presented => call.presentWaitSem = call.entryFrame

\* a call that presented image 2 of 3 from one of the 2 frame slots
C3_Witness ==
    /\ call.presented
    /\ numImages = MAX_FRAMES_IN_FLIGHT + 1
    /\ call.image = MAX_FRAMES_IN_FLIGHT
    /\ call.image # call.entryFrame

\* C4: whenever DrawFrame detects presentation staleness (out-of-date on acquire,
\* out-of-date or suboptimal on present, or a pending resize), it is handled by
\* running the swapchain recreation and never by halting or terminating: the
\* process keeps running and the call returns with the swapchain recreated.
C4_StalenessRecovered ==
    call.stale =>
        /\ proc = "running"
        /\ (pc = "idle" => call.returned /\ call.recreations >= 1)

\* C5: a DrawFrame call whose acquisition reports out-of-date recreates the
\* swapchain and returns without writing uniform data, submitting or presenting.
C5_OutOfDateAcquireAbandonsFrame ==
    call.acquire = "out_of_date" =>
        /\ ~call.uboWritten
        /\ ~call.submitted
        /\ ~call.presented
        /\ (pc = "idle" => call.returned /\ call.recreations = 1)

\* C6: every DrawFrame call that observes a pending resize performs exactly one
\* swapchain recreation, with the most recently notified size; a call that observes
\* neither a pending resize nor staleness performs none.
C6_ResizeRecreatesOnceWithLatestSize ==
    call.returned =>
        /\ (call.observedResize =>
               /\ call.recreations = 1
               /\ call.extentUsed = call.notified)
        /\ (~call.observedResize /\ ~call.stale => call.recreations = 0)

\* C7 as stated: every DrawFrame call that returns ends with the frame-slot index
\* equal to (its value at entry + 1) mod MAX_FRAMES_IN_FLIGHT.
C7_EveryCallAdvances ==
    call.returned => current_frame_ = (call.entryFrame + 1) % MAX_FRAMES_IN_FLIGHT

\* C7 as amended: the frame-slot index always stays in [0, MAX_FRAMES_IN_FLIGHT); a
\* DrawFrame call that returns after acquiring an image ends with the index at
\* (entry + 1) mod MAX_FRAMES_IN_FLIGHT, and a call abandoned because acquisition
\* reported out-of-date returns with the index unchanged.
C7_AdvanceUnlessAbandoned ==
    /\ current_frame_ \in Slots
    /\ call.returned =>
          current_frame_ =
              IF call.acquire = "out_of_date"
              THEN call.entryFrame
              ELSE (call.entryFrame + 1) % MAX_FRAMES_IN_FLIGHT

\* a call wrapped the index from 1 to 0, and the next call, abandoned, left it at 0
C7_Witness ==
    /\ call.returned
    /\ call.acquire = "out_of_date"
    /\ frames = MAX_FRAMES_IN_FLIGHT + 1
    /\ call.entryFrame = 0
    /\ current_frame_ = 0
    /\ call.recreations = 1

BeginOnRecording(e) == e.op = "Begin" /\ e.before

EndOnNotRecording(e) == e.op = "End" /\ ~e.before

\* C8: Begin on a command buffer that is already Recording returns the not-ready
\* error without crashing and leaves the buffer Recording.
C8_BeginWhileRecordingReturnsNotReady ==
    \A i \in DOMAIN hist :
        BeginOnRecording(hist[i]) => hist[i].ret = "VK_NOT_READY" /\ hist[i].after

\* a release build returned VK_NOT_READY to a second Begin
C8_Witness ==
    \E i \in DOMAIN hist :
        /\ BeginOnRecording(hist[i])
        /\ hist[i].ret = "VK_NOT_READY"
        /\ is_recording_

\* C9 as stated: End on a command buffer that is not Recording returns an error
\* without crashing and does not change the buffer's state.
C9_EndWithoutBeginReturnsError ==
    \A i \in DOMAIN hist :
        EndOnNotRecording(hist[i]) => hist[i].ret = "VK_NOT_READY" /\ ~hist[i].after

\* C9 as amended: End on a command buffer that is not Recording leaves its state
\* unchanged; in a release build it returns VK_NOT_READY, in a debug build the
\* failed check in front of that return halts execution.
C9_EndWithoutBeginRejected ==
    \A i \in DOMAIN hist :
        EndOnNotRecording(hist[i]) =>
            /\ ~hist[i].after
            /\ hist[i].ret = IF build = "release" THEN "VK_NOT_READY" ELSE "HALT"

\* a release build returned VK_NOT_READY to an End after Begin, End
C9_Witness ==
    /\ Len(hist) = MaxOps
    /\ hist[1].op = "Begin" /\ hist[1].ret = "VK_SUCCESS"
    /\ hist[2].op = "End" /\ hist[2].ret = "VK_SUCCESS"
    /\ EndOnNotRecording(hist[MaxOps])
    /\ hist[MaxOps].ret = "VK_NOT_READY"
    /\ ~is_recording_

BeginEndBegin == <<"Begin", "End", "Begin">>

\* the buffer was allocated, the first n calls on it were Begin, End, Begin and their
\* Vulkan calls succeeded
BeginEndBeginPrefix(n) ==
    /\ handle_ = AllocatedHandle
    /\ n <= Len(BeginEndBegin)
    /\ \A j \in 1 .. n : hist[j].op = BeginEndBegin[j] /\ hist[j].api = "VK_SUCCESS"

\* C10: on a freshly allocated command buffer Begin, End, Begin succeed at every
\* step when the underlying API calls succeed: End moves Recording to Ready and the
\* second Begin moves Ready back to Recording.
C10_BeginEndBeginSucceeds ==
    \A n \in DOMAIN hist :
        BeginEndBeginPrefix(n) =>
            /\ hist[n].ret = "VK_SUCCESS"
            /\ hist[n].after = (BeginEndBegin[n] = "Begin")

\* an allocated buffer went through Begin, End, Begin and is Recording again
C10_Witness ==
    /\ handle_ = AllocatedHandle
    /\ Len(hist) = Len(BeginEndBegin)
    /\ BeginEndBeginPrefix(Len(BeginEndBegin))
    /\ hist[2].ret = "VK_SUCCESS"
    /\ ~hist[2].after
    /\ is_recording_

\* C11: Reset returns the command buffer to the not-Recording state from whichever
\* state it is called in, so that a Begin issued immediately after a Reset succeeds
\* (when the Vulkan calls succeed) even if the buffer was Recording at the Reset.
C11_ResetReturnsToAllocated ==
    \A i \in DOMAIN hist :
        hist[i].op = "Reset" /\ hist[i].api = "VK_SUCCESS" =>
            /\ ~hist[i].after
            /\ (/\ i + 1 \in DOMAIN hist
                /\ hist[i + 1].op = "Begin"
                /\ hist[i + 1].api = "VK_SUCCESS")
               => hist[i + 1].ret = "VK_SUCCESS" /\ hist[i + 1].after

(***************************************************************************)
(* Selection functions: pure functions of what the device and the surface  *)
(* report.  A behaviour makes one call; the call records its inputs in     *)
(* selArgs and what it returned in selResult.                              *)
(***************************************************************************)

\* largest memoryTypeCount of the memory-type tables enumerated
MaxMemoryTypes == 3

\* VkMemoryPropertyFlags values built from two property bits
MemoryPropertyFlagValues == 0 .. 3

RECURSIVE BitAnd(_, _)
\* the & of two unsigned integers
BitAnd(a, b) ==
    IF a = 0 \/ b = 0
    THEN 0
    ELSE (a % 2) * (b % 2) + 2 * BitAnd(a \div 2, b \div 2)

\* (1 << i)
ShiftLeftOne(i) == 2 ^ i

\* VkPhysicalDeviceMemoryProperties: memoryTypes[0 .. memoryTypeCount - 1].propertyFlags
MemoryTypeTables ==
    UNION {[1 .. n -> MemoryPropertyFlagValues] : n \in 0 .. MaxMemoryTypes}

TypeFilters == 0 .. (ShiftLeftOne(MaxMemoryTypes) - 1)

MemoryTypeFinders == {"VulkanMemory", "VulkanBuffer"}

\* mutant: any one of the required properties is enough
IsMemoryTypeSuitable_AnyProperty(i, type_filter, properties, table) ==
    /\ BitAnd(type_filter, ShiftLeftOne(i)) # 0
    /\ (properties = 0 \/ BitAnd(table[i + 1], properties) # 0)

\* is_type_accepted && are_required_properties_supported for index i
IsMemoryTypeSuitable(i, type_filter, properties, table) ==
    /\ BitAnd(type_filter, ShiftLeftOne(i)) # 0
    /\ BitAnd(table[i + 1], properties) = properties

RECURSIVE FindMemoryTypeFrom(_, _, _, _)
\* the for loop from index i on; -1 when it ends without returning
FindMemoryTypeFrom(i, type_filter, properties, table) ==
    IF i >= Len(table)
    THEN -1
    ELSE IF IsMemoryTypeSuitable(i, type_filter, properties, table)
         THEN i
         ELSE FindMemoryTypeFrom(i + 1, type_filter, properties, table)

\* VulkanMemory::FindMemoryType and VulkanBuffer::FindMemoryType
FindMemoryType(finder, b, type_filter, properties, table) ==
    LET i == FindMemoryTypeFrom(0, type_filter, properties, table)
    IN  IF i >= 0
        THEN [kind |-> "index", index |-> i]
        ELSE IF finder = "VulkanBuffer" /\ CheckHalts(b, FALSE)
             THEN [kind |-> "halt"]
             ELSE [kind |-> "exit"]

FindMemoryTypeCall ==
    /\ NothingSelected
    /\ \E finder \in MemoryTypeFinders, type_filter \in TypeFilters,
       properties \in MemoryPropertyFlagValues, table \in MemoryTypeTables :
        /\ selArgs' = [fn |-> "FindMemoryType", finder |-> finder, type_filter |-> type_filter,
                       properties |-> properties, table |-> table]
        /\ selResult' = FindMemoryType(finder, build, type_filter, properties, table)
        /\ UNCHANGED <<frameVars, build, cmdVars, memVars, seqVars>>

\* the bits set in a bitmask
BitsOf(x) == {k \in 0 .. MaxMemoryTypes : (x \div (2 ^ k)) % 2 = 1}

\* the indices the specification accepts
MemoryTypeCandidates(type_filter, properties, table) ==
    {i \in 0 .. (Len(table) - 1) :
        /\ i \in BitsOf(type_filter)
        /\ BitsOf(properties) \subseteq BitsOf(table[i + 1])}

\* C12: if some memory-type index has its bit set in the type filter and property
\* flags that are a superset of the required flags, FindMemoryType returns the
\* lowest such index; if none has, it fails fatally and returns no index.
C12_FindMemoryTypeLowestMatch ==
    selArgs.fn = "FindMemoryType" =>
        LET cands == MemoryTypeCandidates(selArgs.type_filter, selArgs.properties, selArgs.table)
        IN  IF cands # {}
            THEN /\ selResult.kind = "index"
                 /\ selResult.index \in cands
                 /\ \A j \in cands : selResult.index <= j
            ELSE selResult.kind \in {"exit", "halt"}

\* index 0 lacks a required property, index 1 has the required property and an extra
\* one and wins over index 2
C12_Witness ==
    /\ selArgs.fn = "FindMemoryType"
    /\ selArgs.type_filter = 7
    /\ selArgs.properties = 2
    /\ selArgs.table = <<1, 3, 2>>
    /\ selResult = [kind |-> "index", index |-> 1]

\* largest minImageCount / maxImageCount a surface reports
MaxSurfaceImageCount == 4

\* width given to the unsigned integers (uint32 in the sources) of the image counts
\* and extents
UIntBits == 8

UIntModulus == 2 ^ UIntBits

\* mutant: the surface's maximum is ignored
ChooseNumberOfImages_NoLimit(minImageCount, maxImageCount) ==
    (minImageCount + 1) % UIntModulus

\* VulkanSwapchain::ChooseNumberOfImages, and the same lines of
\* HelloTriangleApplication::CreateSwapChain
ChooseNumberOfImages(minImageCount, maxImageCount) ==
    LET is_num_images_limited == maxImageCount > 0
        desired_num_images == (minImageCount + 1) % UIntModulus
    IN  IF is_num_images_limited /\ desired_num_images > maxImageCount
        THEN maxImageCount
        ELSE desired_num_images

ChooseNumberOfImagesCall ==
    /\ NothingSelected
    /\ \E minImageCount \in 0 .. MaxSurfaceImageCount, maxImageCount \in 0 .. MaxSurfaceImageCount :
        /\ selArgs' = [fn |-> "ChooseNumberOfImages", minImageCount |-> minImageCount,
                       maxImageCount |-> maxImageCount]
        /\ selResult' = [kind |-> "count",
                         count |-> ChooseNumberOfImages(minImageCount, maxImageCount)]
        /\ UNCHANGED <<frameVars, build, cmdVars, memVars, seqVars>>

\* C13: the chosen swapchain image count equals minImageCount + 1 unless that
\* exceeds a maxImageCount > 0, in which case it equals maxImageCount; a
\* maxImageCount of 0 imposes no limit.
C13_ImageCountMinPlusOneCapped ==
    selArgs.fn = "ChooseNumberOfImages" =>
        selResult.count =
            IF selArgs.maxImageCount > 0 /\ selArgs.minImageCount + 1 > selArgs.maxImageCount
            THEN selArgs.maxImageCount
            ELSE selArgs.minImageCount + 1

\* minImageCount + 1 exceeds the maximum and the maximum is chosen
C13_Witness ==
    /\ selArgs.fn = "ChooseNumberOfImages"
    /\ selArgs.minImageCount = 3
    /\ selArgs.maxImageCount = 3
    /\ selResult.count = 3

\* largest width / height enumerated for extents
MaxExtent == 1

\* the "undefined" value of currentExtent.width: the largest unsigned integer
UINT32_MAX == UIntModulus - 1

ExtentValues == 0 .. MaxExtent

Extents == ExtentValues \X ExtentValues

\* what a surface may report as currentExtent
CurrentExtents == (ExtentValues \cup {UINT32_MAX}) \X (ExtentValues \cup {UINT32_MAX})

Min(a, b) == IF b < a THEN b ELSE a

Max(a, b) == IF a < b THEN b ELSE a

\* mutant: the desired size is taken as it is
ChooseImageExtent_NoClamp(currentExtent, desired, minImageExtent, maxImageExtent) ==
    IF currentExtent[1] # UINT32_MAX THEN currentExtent ELSE desired

\* VulkanSwapchain::ChooseImageExtent, and HelloTriangleApplication::ChooseSwapExtent
\* with the window's framebuffer size as the desired size
ChooseImageExtent(currentExtent, desired, minImageExtent, maxImageExtent) ==
    IF currentExtent[1] # UINT32_MAX
    THEN currentExtent
    ELSE <<Max(minImageExtent[1], Min(maxImageExtent[1], desired[1])),
           Max(minImageExtent[2], Min(maxImageExtent[2], desired[2]))>>

ChooseImageExtentCall ==
    /\ NothingSelected
    /\ \E currentExtent \in CurrentExtents, desired \in Extents,
       minImageExtent \in Extents, maxImageExtent \in Extents :
        /\ selArgs' = [fn |-> "ChooseImageExtent", currentExtent |-> currentExtent,
                       desired |-> desired, minImageExtent |-> minImageExtent,
                       maxImageExtent |-> maxImageExtent]
        /\ selResult' = [kind |-> "extent",
                         extent |-> ChooseImageExtent(currentExtent, desired,
                                                      minImageExtent, maxImageExtent)]
        /\ UNCHANGED <<frameVars, build, cmdVars, memVars, seqVars>>

\* extent e lies within [lo, hi] in width and in height
ExtentWithin(e, lo, hi) ==
    /\ lo[1] <= e[1] /\ e[1] <= hi[1]
    /\ lo[2] <= e[2] /\ e[2] <= hi[2]

\* C14 as stated: for all inputs the chosen extent lies within
\* [minImageExtent, maxImageExtent] in width and in height.
C14_ExtentAlwaysWithinBounds ==
    selArgs.fn = "ChooseImageExtent" =>
        ExtentWithin(selResult.extent, selArgs.minImageExtent, selArgs.maxImageExtent)

\* C14 as amended: when the surface reports a defined current extent the chosen
\* extent is that extent, unclamped, so it lies within the bounds exactly when the
\* reported extent does; when the surface reports the undefined sentinel and
\* minImageExtent <= maxImageExtent in both components, the chosen extent lies
\* within [minImageExtent, maxImageExtent] in width and in height.
C14_ExtentWithinBoundsWhenConsistent ==
    selArgs.fn = "ChooseImageExtent" =>
        /\ selArgs.currentExtent[1] # UINT32_MAX => selResult.extent = selArgs.currentExtent
        /\ (/\ selArgs.currentExtent[1] = UINT32_MAX
            /\ ExtentWithin(selArgs.minImageExtent, selArgs.minImageExtent, selArgs.maxImageExtent))
           => ExtentWithin(selResult.extent, selArgs.minImageExtent, selArgs.maxImageExtent)

\* undefined current extent; the desired width is cut down to the maximum and the
\* desired height is raised to the minimum
C14_Witness ==
    /\ selArgs.fn = "ChooseImageExtent"
    /\ selArgs.currentExtent = <<UINT32_MAX, UINT32_MAX>>
    /\ selArgs.desired = <<1, 0>>
    /\ selArgs.minImageExtent = <<0, 1>>
    /\ selArgs.maxImageExtent = <<0, 1>>
    /\ selResult.extent = <<0, 1>>



\* longest list of supported present modes enumerated
MaxPresentModes == 3

PresentModes ==
    {"VK_PRESENT_MODE_IMMEDIATE_KHR", "VK_PRESENT_MODE_MAILBOX_KHR",
     "VK_PRESENT_MODE_FIFO_KHR", "VK_PRESENT_MODE_FIFO_RELAXED_KHR"}

\* what a surface may report: each supported mode once, in any order, FIFO among them
PresentModeLists ==
    {l \in UNION {[1 .. n -> PresentModes] : n \in 1 .. MaxPresentModes} :
        /\ \A i, j \in DOMAIN l : l[i] = l[j] => i = j
        /\ \E i \in DOMAIN l : l[i] = "VK_PRESENT_MODE_FIFO_KHR"}

PresentModeChoosers == {"VulkanSwapchain", "HelloTriangleApplication"}

\* VulkanSwapchain::ChoosePresentMode and HelloTriangleApplication::ChooseSwapPresentMode
ChoosePresentMode(chooser, available_present_modes) ==
    IF \E i \in DOMAIN available_present_modes :
            available_present_modes[i] = "VK_PRESENT_MODE_MAILBOX_KHR"
    THEN "VK_PRESENT_MODE_MAILBOX_KHR"
    ELSE IF chooser = "VulkanSwapchain"
         THEN available_present_modes[1]
         ELSE "VK_PRESENT_MODE_FIFO_KHR"

ChoosePresentModeCall ==
    /\ NothingSelected
    /\ \E chooser \in PresentModeChoosers, available_present_modes \in PresentModeLists :
        /\ selArgs' = [fn |-> "ChoosePresentMode", chooser |-> chooser,
                       available_present_modes |-> available_present_modes]
        /\ selResult' = [kind |-> "mode",
                         mode |-> ChoosePresentMode(chooser, available_present_modes)]
        /\ UNCHANGED <<frameVars, build, cmdVars, memVars, seqVars>>

\* C15: present-mode selection returns mailbox whenever mailbox is among the
\* supported present modes and FIFO in every other case, whatever the contents and
\* order of the supported list.
C15_MailboxElseFifo ==
    selArgs.fn = "ChoosePresentMode" =>
        selResult.mode =
            IF \E i \in DOMAIN selArgs.available_present_modes :
                    selArgs.available_present_modes[i] = "VK_PRESENT_MODE_MAILBOX_KHR"
            THEN "VK_PRESENT_MODE_MAILBOX_KHR"
            ELSE "VK_PRESENT_MODE_FIFO_KHR"

\* most queue families a device reports
MaxQueueFamilies == 2

VK_QUEUE_GRAPHICS_BIT == 1

VK_QUEUE_COMPUTE_BIT == 2

VK_QUEUE_TRANSFER_BIT == 4

\* queueFlags of a family: at least one of the three capability bits
QueueFlagValues == 1 .. 7

\* queue_family_properties_: the queueFlags of family 0, 1, ... of a device that
\* can draw; a device with a graphics family has a family with graphics and compute
QueueFamilyTables ==
    {t \in UNION {[1 .. n -> QueueFlagValues] : n \in 1 .. MaxQueueFamilies} :
        \E i \in DOMAIN t :
            t[i] \div VK_QUEUE_TRANSFER_BIT \in {0, 1}
              /\ t[i] % VK_QUEUE_TRANSFER_BIT = VK_QUEUE_GRAPHICS_BIT + VK_QUEUE_COMPUTE_BIT}

\* the value of an index no loop has assigned: uint32_t -1 in VulkanDevice.h, an
\* empty std::optional in Device.h
NoFamily == UINT32_MAX

HasFlag(flags, bit) == BitAnd(flags, bit) # 0

RECURSIVE DedicatedComputeLoop(_, _, _)
\* first loop of GetQueueFamilyIndices: the last compute family without the graphics bit
DedicatedComputeLoop(i, table, compute) ==
    IF i >= Len(table)
    THEN compute
    ELSE DedicatedComputeLoop(i + 1, table,
            IF /\ HasFlag(table[i + 1], VK_QUEUE_COMPUTE_BIT)
               /\ ~HasFlag(table[i + 1], VK_QUEUE_GRAPHICS_BIT)
            THEN i
            ELSE compute)

RECURSIVE DedicatedTransferLoop(_, _, _)
\* second loop: the last transfer family without the graphics and the compute bit
DedicatedTransferLoop(i, table, transfer) ==
    IF i >= Len(table)
    THEN transfer
    ELSE DedicatedTransferLoop(i + 1, table,
            IF /\ HasFlag(table[i + 1], VK_QUEUE_TRANSFER_BIT)
               /\ ~HasFlag(table[i + 1], VK_QUEUE_GRAPHICS_BIT)
               /\ ~HasFlag(table[i + 1], VK_QUEUE_COMPUTE_BIT)
            THEN i
            ELSE transfer)

RECURSIVE AnyFamilyLoop(_, _, _, _)
\* third loop: every index still unassigned takes the first family with its bit
AnyFamilyLoop(i, table, requested, indices) ==
    IF i >= Len(table)
    THEN indices
    ELSE LET flags == table[i + 1]
             take(bit, cur) ==
                 IF HasFlag(requested, bit) /\ cur = NoFamily /\ HasFlag(flags, bit)
                 THEN i
                 ELSE cur
         IN  AnyFamilyLoop(i + 1, table, requested,
                [transfer |-> take(VK_QUEUE_TRANSFER_BIT, indices.transfer),
                 compute  |-> take(VK_QUEUE_COMPUTE_BIT, indices.compute),
                 graphics |-> take(VK_QUEUE_GRAPHICS_BIT, indices.graphics)])

\* VulkanDevice::GetQueueFamilyIndices
GetQueueFamilyIndices(table, requested) ==
    LET compute == IF HasFlag(requested, VK_QUEUE_COMPUTE_BIT)
                   THEN DedicatedComputeLoop(0, table, NoFamily)
                   ELSE NoFamily
        transfer == IF HasFlag(requested, VK_QUEUE_TRANSFER_BIT)
                    THEN DedicatedTransferLoop(0, table, NoFamily)
                    ELSE NoFamily
    IN  AnyFamilyLoop(0, table, requested,
            [transfer |-> transfer, compute |-> compute, graphics |-> NoFamily])

\* requested_queue_families of CreateLogicalDevice
RequestedQueueFamilies ==
    VK_QUEUE_GRAPHICS_BIT + VK_QUEUE_COMPUTE_BIT + VK_QUEUE_TRANSFER_BIT

GetQueueFamilyIndicesCall ==
    /\ NothingSelected
    /\ \E table \in QueueFamilyTables :
        /\ selArgs' = [fn |-> "GetQueueFamilyIndices", table |-> table]
        /\ selResult' = [kind |-> "families",
                         indices |-> GetQueueFamilyIndices(table, RequestedQueueFamilies)]
        /\ UNCHANGED <<frameVars, build, cmdVars, memVars, seqVars>>

RECURSIVE GraphicsPresentLoop(_, _, _, _, _)
\* first loop of Device::FindQueueFamilies; stops at a family with graphics and present
GraphicsPresentLoop(i, table, present, graphics_family, present_family) ==
    IF i >= Len(table)
    THEN [graphics |-> graphics_family, present |-> present_family]
    ELSE LET is_graphics == HasFlag(table[i + 1], VK_QUEUE_GRAPHICS_BIT)
             g == IF is_graphics THEN i ELSE graphics_family
             p == IF present[i + 1] THEN i ELSE present_family
         IN  IF is_graphics /\ present[i + 1]
             THEN [graphics |-> g, present |-> p]
             ELSE GraphicsPresentLoop(i + 1, table, present, g, p)

RECURSIVE OtherFamilyLoop(_, _, _, _, _)
\* the compute and the transfer loop of Device::FindQueueFamilies: stops at the
\* first family with the bit whose index differs from the graphics family
OtherFamilyLoop(i, table, bit, graphics_family, family) ==
    IF i >= Len(table)
    THEN family
    ELSE IF HasFlag(table[i + 1], bit)
         THEN IF graphics_family # i
              THEN i
              ELSE OtherFamilyLoop(i + 1, table, bit, graphics_family, i)
         ELSE OtherFamilyLoop(i + 1, table, bit, graphics_family, family)

\* Device::FindQueueFamilies
FindQueueFamilies(table, present) ==
    LET gp == GraphicsPresentLoop(0, table, present, NoFamily, NoFamily)
    IN  [graphics |-> gp.graphics,
         present  |-> gp.present,
         compute  |-> OtherFamilyLoop(0, table, VK_QUEUE_COMPUTE_BIT, gp.graphics, NoFamily),
         transfer |-> OtherFamilyLoop(0, table, VK_QUEUE_TRANSFER_BIT, gp.graphics, NoFamily)]

FindQueueFamiliesCall ==
    /\ NothingSelected
    /\ \E table \in QueueFamilyTables :
        \E present \in [DOMAIN table -> BOOLEAN] :
            /\ selArgs' = [fn |-> "FindQueueFamilies", table |-> table, present |-> present]
            /\ selResult' = [kind |-> "families", indices |-> FindQueueFamilies(table, present)]
            /\ UNCHANGED <<frameVars, build, cmdVars, memVars, seqVars>>

\* the families of a table dedicated to compute: the compute bit without the graphics bit
DedicatedComputeFamilies(table) ==
    {i \in 0 .. (Len(table) - 1) :
        /\ HasFlag(table[i + 1], VK_QUEUE_COMPUTE_BIT)
        /\ ~HasFlag(table[i + 1], VK_QUEUE_GRAPHICS_BIT)}

\* the families dedicated to transfer: the transfer bit without graphics and compute
DedicatedTransferFamilies(table) ==
    {i \in 0 .. (Len(table) - 1) :
        /\ HasFlag(table[i + 1], VK_QUEUE_TRANSFER_BIT)
        /\ ~HasFlag(table[i + 1], VK_QUEUE_GRAPHICS_BIT)
        /\ ~HasFlag(table[i + 1], VK_QUEUE_COMPUTE_BIT)}

\* C16: for compute and for transfer, queue-family selection picks a family
\* dedicated to the capability when the table has one, and the graphics family's
\* index when it has none.
C16_DedicatedElseGraphicsFamily ==
    selArgs.fn \in {"GetQueueFamilyIndices", "FindQueueFamilies"} =>
        LET ix == selResult.indices
            dc == DedicatedComputeFamilies(selArgs.table)
            dt == DedicatedTransferFamilies(selArgs.table)
        IN  /\ IF dc # {} THEN ix.compute \in dc ELSE ix.compute = ix.graphics
            /\ IF dt # {} THEN ix.transfer \in dt ELSE ix.transfer = ix.graphics

CreateDeviceResults == {"VK_SUCCESS", "VK_ERROR_INITIALIZATION_FAILED"}

\* VulkanDevice::CreateLogicalDevice: the families its three VulkanQueue objects hold.
\* fatal is how the process ends when queues are wrapped around a device that was
\* not created: the check in the constructor of the first VulkanQueue fails and no
\* queue object exists ("halt"), or the three are made and exit follows ("exit")
CreateLogicalDevice(b, table, r, fatal) ==
    LET queue_family_indices == GetQueueFamilyIndices(table, RequestedQueueFamilies)
    IN  IF \/ VerifyVkResultHalts(b, r)
           \/ r = "VK_ERROR_INITIALIZATION_FAILED" /\ fatal = "halt"
        THEN [created |-> "halt", graphics |-> NoFamily, compute |-> NoFamily,
              transfer |-> NoFamily]
        ELSE [created |-> IF r = "VK_ERROR_INITIALIZATION_FAILED" THEN fatal ELSE "returned",
              graphics |-> queue_family_indices.graphics,
              compute |-> queue_family_indices.compute,
              transfer |-> queue_family_indices.transfer]

\* vkGetPhysicalDeviceSurfaceSupportKHR for a queue's family; for a family index the
\* device does not have the answer is whatever the driver writes
SurfaceSupport(family, present, invalid) ==
    IF family = NoFamily THEN invalid ELSE present[family + 1]

\* VulkanDevice::InitPresentQueue: the family of the queue chosen as present queue
InitPresentQueue(b, queues, present, invalid) ==
    IF VerifyVkResultHalts(b, "VK_SUCCESS")
    THEN [presentInit |-> "halt", present |-> NoFamily]
    ELSE IF SurfaceSupport(queues.graphics, present, invalid)
         THEN [presentInit |-> "returned", present |-> queues.graphics]
         ELSE IF SurfaceSupport(queues.compute, present, invalid)
              THEN [presentInit |-> "returned", present |-> queues.compute]
              ELSE IF SurfaceSupport(queues.transfer, present, invalid)
                   THEN [presentInit |-> "returned", present |-> queues.transfer]
                   ELSE [presentInit |-> "exit", present |-> NoFamily]

\* device creation followed by InitPresentQueue, as VulkanRenderer::Init runs them
DeviceInitCall ==
    /\ NothingSelected
    /\ \E table \in QueueFamilyTables, r \in CreateDeviceResults,
       fatal \in {"halt", "exit"}, invalid \in BOOLEAN :
        \E present \in [DOMAIN table -> BOOLEAN] :
            LET queues == CreateLogicalDevice(build, table, r, fatal)
                pq == IF queues.created = "returned"
                      THEN InitPresentQueue(build, queues, present, invalid)
                      ELSE [presentInit |-> "none", present |-> NoFamily]
            IN  /\ build = "release" => fatal = "exit"
                /\ selArgs' = [fn |-> "DeviceInit", table |-> table, present |-> present,
                               result |-> r]
                /\ selResult' = [kind |-> "device", created |-> queues.created,
                                 graphics |-> queues.graphics, compute |-> queues.compute,
                                 transfer |-> queues.transfer,
                                 presentInit |-> pq.presentInit, presentFamily |-> pq.present]
                /\ UNCHANGED <<frameVars, build, cmdVars, memVars, seqVars>>

\* family is a family of the table and reports the capability bit
FamilyReports(table, family, bit) ==
    /\ family \in 0 .. (Len(table) - 1)
    /\ HasFlag(table[family + 1], bit)

\* C17: after CreateLogicalDevice the family index held by each of the graphics,
\* compute and transfer queues is a family of the device that reports the queue's
\* capability bit, and after InitPresentQueue the present queue's family passes the
\* surface-support query.
C17_QueueFamiliesReportCapability ==
    selArgs.fn = "DeviceInit" /\ selResult.created = "returned" =>
        /\ FamilyReports(selArgs.table, selResult.graphics, VK_QUEUE_GRAPHICS_BIT)
        /\ FamilyReports(selArgs.table, selResult.compute, VK_QUEUE_COMPUTE_BIT)
        /\ FamilyReports(selArgs.table, selResult.transfer, VK_QUEUE_TRANSFER_BIT)
        /\ selResult.presentInit = "returned" =>
              /\ selResult.presentFamily \in 0 .. (Len(selArgs.table) - 1)
              /\ selArgs.present[selResult.presentFamily + 1]

(***************************************************************************)
(* Callers of the selection functions                                      *)
(***************************************************************************)
InitSelect ==
    /\ build \in Builds
    /\ FrameLoopIdle
    /\ NoCommandBuffer
    /\ NothingSelected
    /\ MemoryAfterAllocation("VulkanMemory")
    /\ NoRoutineRunning

NextSelect ==
    \/ FindMemoryTypeCall
    \/ ChooseNumberOfImagesCall
    \/ ChooseImageExtentCall
    \/ ChoosePresentModeCall
    \/ GetQueueFamilyIndicesCall
    \/ FindQueueFamiliesCall
    \/ DeviceInitCall

\* the selection functions called with whatever the device and surface may report
SpecSelect == InitSelect /\ [][NextSelect]_vars

(***************************************************************************)
(* Mapping device memory: VulkanMemory, VulkanBuffer and Buffer            *)
(***************************************************************************)

\* Map / Unmap calls per behaviour
MaxMemOps == 3

MapResults == {"VK_SUCCESS", "VK_ERROR_MEMORY_MAP_FAILED"}

\* assert() of <assert.h>: aborts on a false expression unless NDEBUG is defined
AssertFails(b, expr) == b = "debug" /\ ~expr

MemOutcome(outcome, mapped, live) == [outcome |-> outcome, mapped |-> mapped, live |-> live]

\* vkMapMemory returned r: on success the caller holds one more pointer
AfterVkMapMemory(mapped, live, r) ==
    IF r = "VK_SUCCESS"
    THEN MemOutcome("mapped", TRUE, live + 1)
    ELSE MemOutcome("failed", mapped, live)

\* the memory was freed by an earlier call (Destroy, or VulkanMemory's destructor)
MemoryFreed(h) == \E i \in DOMAIN h : h[i].op = "Destroy" /\ h[i].outcome = "freed"

(* A Vulkan call on memory that was freed is undefined: the process dies    *)
(* ("crash") or the driver returns and no mapping exists afterwards.        *)
UseAfterFree(ub, mapped) ==
    IF ub = "crash"
    THEN MemOutcome("crash", mapped, 0)
    ELSE MemOutcome("undefined", mapped, 0)

(* Buffer::Map, VulkanBuffer::Map and VulkanMemory::Map on memory that is   *)
(* allocated.  Only Buffer looks at the mapping state.                      *)
(*   verifyHalts    VERIFY_VK_RESULT_MSG has no definition in the sources,  *)
(*                  in a debug build it may halt the call or let it        *)
(*                  continue                                                *)
(*   checkEvaluates VulkanBuffer::Map makes its vkMapMemory call inside the *)
(*                  argument of CHECK; a release build either still         *)
(*                  evaluates the argument or compiles it out with the      *)
(*                  check, and then returns nullptr without any call        *)
Map(owner, b, mapped, live, r, verifyHalts, checkEvaluates) ==
    CASE owner = "Buffer" ->
            IF AssertFails(b, ~mapped)
            THEN MemOutcome("halt", mapped, live)
            ELSE AfterVkMapMemory(mapped, live, r)
      [] owner = "VulkanBuffer" ->
            IF b # "debug" /\ ~checkEvaluates
            THEN MemOutcome("not_called", mapped, live)
            ELSE IF CheckHalts(b, r = "VK_SUCCESS")
                 THEN MemOutcome("halt", mapped, live)
                 ELSE AfterVkMapMemory(mapped, live, r)
      [] owner = "VulkanMemory" ->
            IF b = "debug" /\ verifyHalts
            THEN MemOutcome("halt", mapped, live)
            ELSE AfterVkMapMemory(mapped, live, r)

\* vkUnmapMemory: ends every mapping of the memory; on memory that is not mapped
\* the call is invalid and either does nothing or crashes
AfterVkUnmapMemory(live, crash) ==
    IF live = 0 /\ crash
    THEN MemOutcome("crash", FALSE, 0)
    ELSE MemOutcome("unmapped", FALSE, 0)

\* Buffer::Unmap, VulkanBuffer::Unmap and VulkanMemory::Unmap
Unmap(owner, b, mapped, live, crash) ==
    IF owner = "Buffer" /\ AssertFails(b, mapped)
    THEN MemOutcome("halt", mapped, live)
    ELSE AfterVkUnmapMemory(live, crash)

(* Buffer::Destroy, VulkanBuffer::Destroy and ~VulkanMemory: vkFreeMemory   *)
(* ends every mapping of the memory.  Buffer::Destroy leaves mapped_addr_   *)
(* as it is, and the two Destroy functions leave the handles set.           *)
MemoryDestroy(owner, b, mapped, live) == MemOutcome("freed", mapped, 0)

\* Buffer::GetMapped: assert(mapped_addr_ != nullptr); return mapped_addr_
GetMapped(b, mapped, live) ==
    IF AssertFails(b, mapped)
    THEN MemOutcome("halt", mapped, live)
    ELSE MemOutcome(IF mapped THEN "pointer" ELSE "nullptr", mapped, live)

(* What a call does once the memory was freed.  The handles are still set,  *)
(* so the checks in front of the Vulkan call pass; Buffer's asserts on      *)
(* mapped_addr_ still apply; the Vulkan call itself is undefined, and when   *)
(* it returns VulkanBuffer::Map checks its result.                          *)
(* Buffer::Map stores what vkMapMemory wrote, Buffer::Unmap clears          *)
(* mapped_addr_ after the call.                                             *)
OnFreedMemory(op, owner, b, mapped, r, ub, checkEvaluates) ==
    CASE op = "Map" ->
            IF owner = "Buffer" /\ AssertFails(b, ~mapped)
            THEN MemOutcome("halt", mapped, 0)
            ELSE IF owner = "VulkanBuffer" /\ b # "debug" /\ ~checkEvaluates
                 THEN MemOutcome("not_called", mapped, 0)
                 ELSE IF /\ owner = "VulkanBuffer"
                         /\ ub = "continue"
                         /\ CheckHalts(b, r = "VK_SUCCESS")
                      THEN MemOutcome("halt", mapped, 0)
                      ELSE UseAfterFree(ub, IF ub = "continue" /\ r = "VK_SUCCESS"
                                             THEN TRUE ELSE mapped)
      [] op = "Unmap" ->
            IF owner = "Buffer" /\ AssertFails(b, mapped)
            THEN MemOutcome("halt", mapped, 0)
            ELSE UseAfterFree(ub, IF ub = "continue" THEN FALSE ELSE mapped)
      [] op = "Destroy" -> UseAfterFree(ub, mapped)

\* the calls on memory owned by VulkanBuffer so far agree on what CHECK does with
\* its argument (it is one build)
SameBuild(checkEvaluates) ==
    \A i \in DOMAIN memHist : memHist[i].checkEvaluates = checkEvaluates

MemCall(op, o, checkEvaluates) ==
    /\ proc = "running"
    /\ Len(memHist) < MaxMemOps
    /\ ~(memOwner = "VulkanMemory" /\ MemoryFreed(memHist))
    /\ SameBuild(checkEvaluates)
    /\ mapped_addr_' = (IF memOwner = "Buffer" THEN o.mapped ELSE mapped_addr_)
    /\ liveMappings' = o.live
    /\ memHist' = Append(memHist, [op |-> op, liveBefore |-> liveMappings,
                                   outcome |-> o.outcome, liveAfter |-> o.live,
                                   checkEvaluates |-> checkEvaluates])
    /\ proc' = CASE o.outcome = "halt" -> "halted"
                 [] o.outcome = "crash" -> "crashed"
                 [] OTHER -> proc
    /\ UNCHANGED <<impl, build, pc, current_frame_, fences, inflight_images_, numImages,
                   pending, was_frame_buffer_resized_, framebuffer_size_, windowSize,
                   numResizes, swapExtent, frames, call>>
    /\ UNCHANGED <<cmdVars, selVars, memOwner, seqVars>>

\* whether CHECK's argument may be compiled out: only VulkanBuffer outside debug builds
CheckChoices == IF memOwner = "VulkanBuffer" /\ build # "debug" THEN BOOLEAN ELSE {TRUE}

MapCall ==
    \E r \in MapResults, verifyHalts \in BOOLEAN, ub \in UbOutcomes, e \in CheckChoices :
        /\ verifyHalts => memOwner = "VulkanMemory" /\ build = "debug"
        /\ (ub = "crash" =>
                /\ MemoryFreed(memHist)
                /\ OnFreedMemory("Map", memOwner, build, mapped_addr_, r, ub, e).outcome
                      = "crash")
        /\ (MemoryFreed(memHist) => ~verifyHalts)
        /\ MemCall("Map",
                   IF MemoryFreed(memHist)
                   THEN OnFreedMemory("Map", memOwner, build, mapped_addr_, r, ub, e)
                   ELSE Map(memOwner, build, mapped_addr_, liveMappings, r, verifyHalts, e),
                   e)

UnmapCall ==
    \E crash \in BOOLEAN, e \in CheckChoices :
        /\ crash => liveMappings = 0
        /\ MemCall("Unmap",
                   IF MemoryFreed(memHist)
                   THEN OnFreedMemory("Unmap", memOwner, build, mapped_addr_, "VK_SUCCESS",
                                      IF crash THEN "crash" ELSE "continue", e)
                   ELSE Unmap(memOwner, build, mapped_addr_, liveMappings, crash),
                   e)

\* Buffer::Destroy, VulkanBuffer::Destroy or the destructor of VulkanMemory
DestroyCall ==
    \E ub \in UbOutcomes, e \in CheckChoices :
        /\ (ub = "crash" => MemoryFreed(memHist))
        /\ MemCall("Destroy",
                   IF MemoryFreed(memHist)
                   THEN OnFreedMemory("Destroy", memOwner, build, mapped_addr_, "VK_SUCCESS",
                                      ub, e)
                   ELSE MemoryDestroy(memOwner, build, mapped_addr_, liveMappings),
                   e)

GetMappedCall ==
    \E e \in CheckChoices :
        /\ memOwner = "Buffer"
        /\ MemCall("GetMapped", GetMapped(build, mapped_addr_, liveMappings), e)

InitMem ==
    /\ build \in Builds
    /\ FrameLoopIdle
    /\ NoCommandBuffer
    /\ NothingSelected
    /\ \E owner \in MemoryOwners : MemoryAfterAllocation(owner)
    /\ NoRoutineRunning

NextMem ==
    \/ MapCall
    \/ UnmapCall
    \/ DestroyCall
    \/ GetMappedCall

\* a client of one piece of device memory
SpecMem == InitMem /\ [][NextMem]_vars

\* C18: a memory is mapped by at most one live CPU pointer at a time: a Map issued
\* while an earlier Map has not been matched by Unmap is rejected instead of
\* producing a second live mapping, and an Unmap without a live mapping is rejected.
C18_AtMostOneLiveMapping ==
    /\ liveMappings <= 1
    /\ \A i \in DOMAIN memHist :
          /\ (memHist[i].op = "Map" /\ memHist[i].liveBefore > 0) =>
                /\ memHist[i].outcome # "mapped"
                /\ memHist[i].liveAfter = memHist[i].liveBefore
          /\ (memHist[i].op = "Unmap" /\ memHist[i].liveBefore = 0) =>
                memHist[i].outcome = "halt"

(***************************************************************************)
(* Host waits of the draw loop                                             *)
(***************************************************************************)
\* the waits that drain the device or a queue
IdleWaitKinds == {"vkDeviceWaitIdle", "vkQueueWaitIdle"}

\* C19: a device-wide idle wait or a queue-idle wait happens only at shutdown or in
\* a DrawFrame call that recreates the swapchain (while it is inside the recreation
\* or after it): a DrawFrame call that recreates nothing performs none, its only
\* host waits are fence waits.
C19_IdleWaitOnlyAtShutdownOrRecreation ==
    /\ (call.waits \cap IdleWaitKinds # {} =>
            pc \in {"shutdown", "create_swapchain", "recreate_depth"}
            \/ call.recreations >= 1)
    /\ (call.acquire # "none" /\ call.recreations = 0
            /\ pc \notin {"create_swapchain", "recreate_depth"} =>
            /\ pc # "shutdown"
            /\ call.waits \subseteq {"vkWaitForFences"})

\* a frame was submitted and presented and DrawFrame returned without recreating
\* anything, while the GPU still works on a submission
C19_Witness ==
    /\ impl = "VulkanRenderer"
    /\ call.returned
    /\ call.presented
    /\ call.recreations = 0
    /\ call.waits = {"vkWaitForFences"}
    /\ pending # {}

(***************************************************************************)
(* Semaphores of one frame                                                 *)
(***************************************************************************)
\* the pipeline stages the model tells apart, in their logical order
StageOrder ==
    <<"TOP_OF_PIPE", "EARLY_FRAGMENT_TESTS", "COLOR_ATTACHMENT_OUTPUT", "BOTTOM_OF_PIPE">>

StageRank(s) == CHOOSE i \in DOMAIN StageOrder : StageOrder[i] = s

\* a semaphore wait with destination mask m holds back the stages of m and the
\* stages logically after them
StagesHeldBack(m) ==
    {StageOrder[i] : i \in {j \in DOMAIN StageOrder : \E w \in m : StageRank(w) <= j}}

\* C20: every frame DrawFrame submits waits on the semaphore its own acquire
\* signals, the image-available semaphore of the slot, with a wait that holds back
\* the color-attachment-output stage and with it the layout transition the render
\* pass places behind that stage, so no color write starts before the image is
\* available; and every present request waits on the render-finished semaphore
\* that same frame's submission signals.
C20_SubmitWaitsAcquirePresentWaitsRender ==
    /\ (call.submitted =>
            /\ call.acquired
            /\ call.waitSem = call.imageAvailableSem
            /\ call.waitSem = call.entryFrame
            /\ "COLOR_ATTACHMENT_OUTPUT" \in StagesHeldBack(call.waitStages)
            /\ SubpassDependency.srcStageMask \cap call.waitStages # {}
            /\ "COLOR_ATTACHMENT_OUTPUT" \in SubpassDependency.dstStageMask
            /\ "COLOR_ATTACHMENT_WRITE" \in SubpassDependency.dstAccessMask)
    /\ (call.presented =>
            /\ call.submitted
            /\ call.presentWaitSem = call.signalSem
            /\ call.presentWaitSem = call.entryFrame)

\* the second slot's frame was submitted and presented for an image whose index
\* differs from the slot's, while the first slot's frame is still on the GPU
C20_Witness ==
    /\ call.submitted
    /\ call.presented
    /\ call.returned
    /\ call.entryFrame = 1
    /\ call.image # call.entryFrame
    /\ \E p \in pending : p.slot = 0

(***************************************************************************)
(* Order of the calls of one DrawFrame                                     *)
(***************************************************************************)
\* C21: a swapchain recreation that follows a frame's submission follows that
\* frame's present request as well: RecreateSwapChain is never entered between
\* vkQueueSubmit and vkQueuePresentKHR, and a present that reports out-of-date or
\* suboptimal, or that finds a resize pending, is the call right before it.
C21_RecreationOnlyAfterPresent ==
    /\ \A i, j \in DOMAIN call.steps :
            (/\ i < j
             /\ call.steps[i] = "vkQueueSubmit"
             /\ call.steps[j] = "RecreateSwapChain")
            => \E k \in DOMAIN call.steps :
                    i < k /\ k < j /\ call.steps[k] = "vkQueuePresentKHR"
    /\ (call.presented /\ call.recreateCalls >= 1 =>
            /\ call.presentStale \/ call.observedResize
            /\ Len(call.steps) >= 2
            /\ call.steps[Len(call.steps)] = "RecreateSwapChain"
            /\ call.steps[Len(call.steps) - 1] = "vkQueuePresentKHR")
    /\ (pc = "recreate" /\ call.submitted => call.presented)

\* a frame was submitted and presented with a resize pending, and the swapchain
\* was recreated after the present
C21_Witness ==
    /\ call.observedResize
    /\ call.recreations = 1
    /\ call.returned
    /\ call.steps = <<"vkAcquireNextImageKHR", "vkQueueSubmit", "vkQueuePresentKHR",
                      "RecreateSwapChain">>

(***************************************************************************)
(* Set-up and tear-down routines.  A routine is the sequence of calls its  *)
(* code makes, in source order; ExecStep runs the next one.  A loop over    *)
(* the images or the frame slots is one step that names the whole array.    *)
(***************************************************************************)
Destroy(what, objs) == [op |-> "destroy", what |-> what, objs |-> objs]

Create(what, objs) == [op |-> "create", what |-> what, objs |-> objs]

Do(op, what) == [op |-> op, what |-> what, objs |-> {}]

\* the frames DrawFrame may have left on the GPU when a routine starts
FramesInFlight == {"frame0", "frame1"}

\* what the caller records between BeginSingleTimeCommands and EndSingleTimeCommands
OneShotUsers == {"CopyBuffer", "TransitionImageLayout", "CopyBufferToImage"}

\* BeginSingleTimeCommands
BeginSingleTimeCommands ==
    <<Create("vkAllocateCommandBuffers", {"command_buffer"}),
      Do("begin", "vkBeginCommandBuffer ONE_TIME_SUBMIT")>>

\* mutant: the command buffer freed right after the submission
EndSingleTimeCommands_NoWait ==
    <<Do("end", "vkEndCommandBuffer"),
      [op |-> "submit", what |-> "vkQueueSubmit graphics", objs |-> {"command_buffer"}],
      Destroy("vkFreeCommandBuffers", {"command_buffer"})>>

\* EndSingleTimeCommands
EndSingleTimeCommands ==
    <<Do("end", "vkEndCommandBuffer"),
      [op |-> "submit", what |-> "vkQueueSubmit graphics", objs |-> {"command_buffer"}],
      Do("queue_wait_idle", "vkQueueWaitIdle graphics"),
      Destroy("vkFreeCommandBuffers", {"command_buffer"})>>

(* CopyBuffer, TransitionImageLayout and CopyBufferToImage: the commands    *)
(* are recorded between the two helpers.  TransitionImageLayout throws on   *)
(* a pair of layouts it does not know, after BeginSingleTimeCommands.       *)
SingleTimeCommands(user, supported) ==
    BeginSingleTimeCommands
    \o (IF user = "TransitionImageLayout" /\ ~supported
        THEN <<Do("throw", "std::invalid_argument")>>
        ELSE <<Do("record", user)>> \o EndSingleTimeCommands)

(* HelloTriangleApplication::CleanUpSwapChain *)
HelloCleanUpSwapChain ==
    <<Destroy("vkDestroyImageView", {"color_image_view_"}),
      Destroy("vkDestroyImage", {"color_image_"}),
      Destroy("vkFreeMemory", {"color_image_memory_"}),
      Destroy("vkDestroyImageView", {"depth_image_view_"}),
      Destroy("vkDestroyImage", {"depth_image_"}),
      Destroy("vkFreeMemory", {"depth_image_memory_"}),
      Destroy("vkDestroyFramebuffer", {"swap_chain_framebuffers_"}),
      Destroy("vkFreeCommandBuffers", {"command_buffers_"}),
      Destroy("vkDestroyPipeline", {"graphics_pipeline_"}),
      Destroy("vkDestroyPipelineLayout", {"pipeline_layout_"}),
      Destroy("vkDestroyRenderPass", {"render_pass_"}),
      Destroy("vkDestroyImageView", {"swap_chain_image_views_"}),
      Destroy("vkDestroySwapchainKHR", {"swap_chain_"}),
      Destroy("vkDestroyBuffer", {"uniform_buffers_"}),
      Destroy("vkFreeMemory", {"uniform_buffers_memory_"}),
      Destroy("vkDestroyDescriptorPool", {"descriptor_pool_", "descriptor_sets_"})>>

(* HelloTriangleApplication::RecreateSwapChain, for a window that is not    *)
(* minimised (the loop on a zero-sized framebuffer is passed at once)       *)
HelloRecreateSwapChain ==
    <<Do("wait_idle", "vkDeviceWaitIdle")>>
    \o HelloCleanUpSwapChain
    \o <<Create("CreateSwapChain", {"swap_chain_"}),
         Create("CreateImageViews", {"swap_chain_image_views_"}),
         Create("CreateRenderPass", {"render_pass_"}),
         Create("CreateGraphicsPipeline", {"pipeline_layout_", "graphics_pipeline_"}),
         Create("CreateColorResources",
                {"color_image_", "color_image_memory_", "color_image_view_"}),
         Create("CreateDepthResources",
                {"depth_image_", "depth_image_memory_", "depth_image_view_"})>>
    \o SingleTimeCommands("TransitionImageLayout", TRUE)
    \o <<Create("CreateFramebuffers", {"swap_chain_framebuffers_"}),
         Create("CreateUniformBuffers", {"uniform_buffers_", "uniform_buffers_memory_"}),
         Create("CreateDescriptorPool", {"descriptor_pool_"}),
         Create("CreateDescriptorSets", {"descriptor_sets_"}),
         Create("CreateCommandBuffers", {"command_buffers_"})>>

\* VulkanRenderer::RecreateSwapChain: CHECK_NO_ENTRY(), the rest is commented out
RendererRecreateSwapChain == <<Do("check_no_entry", "CHECK_NO_ENTRY")>>

\* what CleanUpSwapChain destroys, alive when a recreation starts
SwapChainObjects ==
    UNION {HelloCleanUpSwapChain[i].objs : i \in DOMAIN HelloCleanUpSwapChain}

\* what a staging upload fills
UploadTargets == {"vertex_buffer_", "index_buffer_", "texture_image_"}

\* mutant: the staging memory left mapped
StagingFill_KeepMapped(owner) ==
    <<[op |-> "map",
       what |-> IF owner = "VulkanRenderer" THEN "VulkanBuffer::Map" ELSE "vkMapMemory",
       objs |-> {"staging_memory"}],
      [op |-> "memcpy", what |-> "memcpy", objs |-> {"staging_memory"}]>>

(* the staging buffer is filled: map, memcpy, unmap.  VulkanRenderer maps    *)
(* through VulkanBuffer::Map, which calls vkMapMemory inside the argument of *)
(* CHECK; Main.cpp calls vkMapMemory and ignores the result.                 *)
StagingFill(owner) ==
    <<[op |-> "map",
       what |-> IF owner = "VulkanRenderer" THEN "VulkanBuffer::Map" ELSE "vkMapMemory",
       objs |-> {"staging_memory"}],
      [op |-> "memcpy", what |-> "memcpy", objs |-> {"staging_memory"}],
      [op |-> "unmap", what |-> "vkUnmapMemory", objs |-> {"staging_memory"}]>>

\* GenerateMipmaps: throws when the format cannot be blitted linearly, else one-shot
GenerateMipmaps(linearBlit) ==
    IF linearBlit
    THEN SingleTimeCommands("GenerateMipmaps", TRUE)
    ELSE <<Do("throw", "std::runtime_error")>>

\* the memory allocated and bound to the vertex or index buffer
TargetMemory(target) ==
    IF target = "vertex_buffer_" THEN "vertex_buffer_memory_" ELSE "index_buffer_memory_"

(* CreateVertexBuffer, CreateIndexBuffer and the upload part of             *)
(* CreateTextureImage (from the creation of the staging buffer on)          *)
StagingUpload(owner, target, linearBlit) ==
    <<Create("staging buffer", {"staging_buffer", "staging_memory"})>>
    \o StagingFill(owner)
    \o (IF target = "texture_image_"
        THEN <<Do("call", "stbi_image_free"),
               Create("CreateImage", {"texture_image_", "texture_image_memory_"})>>
             \o SingleTimeCommands("TransitionImageLayout", TRUE)
             \o SingleTimeCommands("CopyBufferToImage", TRUE)
             \o GenerateMipmaps(linearBlit)
        ELSE <<Create("device-local buffer", {target, TargetMemory(target)})>>
             \o SingleTimeCommands("CopyBuffer", TRUE))
    \o <<Destroy("vkDestroyBuffer", {"staging_buffer"}),
         Destroy("vkFreeMemory", {"staging_memory"})>>

(* VulkanRenderer::CleanUpSwapChain.  VulkanViewport::DestroySwapchain has  *)
(* an empty body.                                                           *)
RendererCleanUpSwapChain ==
    <<Destroy("vkDestroyImageView", {"color_image_view_"}),
      Destroy("vkDestroyImage", {"color_image_"}),
      Destroy("vkFreeMemory", {"color_image_memory_"}),
      Destroy("vkDestroyImageView", {"depth_image_view_"}),
      Destroy("vkDestroyImage", {"depth_image_"}),
      Destroy("vkFreeMemory", {"depth_image_memory_"}),
      Destroy("vkDestroyFramebuffer", {"swap_chain_framebuffers_"}),
      Destroy("delete command_buffers_[i]", {"command_buffers_"}),
      Destroy("vkDestroyPipeline", {"graphics_pipeline_"}),
      Destroy("vkDestroyPipelineLayout", {"pipeline_layout_"}),
      Destroy("delete render_pass_", {"render_pass_"}),
      Do("call", "VulkanViewport::DestroySwapchain"),
      Destroy("vkDestroyBuffer", {"uniform_buffers_"}),
      Destroy("vkFreeMemory", {"uniform_buffers_memory_"}),
      Destroy("vkDestroyDescriptorPool", {"descriptor_pool_", "descriptor_sets_"})>>

\* what Cleanup destroys after CleanUpSwapChain, up to the command pool: the same
\* objects in the same order in VulkanRenderer::Cleanup and in Main.cpp's Cleanup
CleanupAfterSwapChain ==
    <<Destroy("vkDestroySampler", {"texture_sampler_"}),
      Destroy("vkDestroyImageView", {"texture_image_view_"}),
      Destroy("vkDestroyImage", {"texture_image_"}),
      Destroy("vkFreeMemory", {"texture_image_memory_"}),
      Destroy("vkDestroyDescriptorSetLayout", {"descriptor_set_layout_"}),
      Destroy("index buffer", {"index_buffer_", "index_buffer_memory_"}),
      Destroy("vertex buffer", {"vertex_buffer_", "vertex_buffer_memory_"}),
      Destroy("vkDestroySemaphore", {"render_finished_semaphores_"}),
      Destroy("vkDestroySemaphore", {"image_available_semaphores_"}),
      Destroy("vkDestroyFence", {"inflight_frame_fences_"}),
      Destroy("vkDestroyCommandPool", {"command_pool_"})>>

\* VulkanRenderer::Cleanup
RendererCleanup ==
    <<Do("wait_idle", "VulkanDevice::WaitUntilIdle")>>
    \o RendererCleanUpSwapChain
    \o CleanupAfterSwapChain
    \o <<Destroy("vkDestroySurfaceKHR", {"surface_"})>>

\* the queue present_queue_ points at: nullptr before InitPresentQueue, afterwards
\* one of the three queues CreateLogicalDevice made
PresentAliases == {"nullptr", "graphics_queue_", "compute_queue_", "transfer_queue_"}

\* the VulkanQueue objects a queue pointer refers to
QueueObject(pointer) == IF pointer = "nullptr" THEN {} ELSE {pointer}

(* The physical devices the platform may report, in the order it reports   *)
(* them, each by its deviceType: a discrete GPU, or any other type.         *)
GpuLists == UNION {[1 .. n -> {"discrete", "integrated"}] : n \in 1 .. MaxDevices}

(* VulkanRHI::SelectAndInitDevice: a VulkanDevice is made and put into      *)
(* found_devices_ for every physical device up to the first discrete GPU,   *)
(* which is selected; without a discrete GPU every device is in the list    *)
(* and the first is selected.  found is the size of found_devices_,         *)
(* selected the place of device_ in it.  CreateLogicalDevice is called for  *)
(* the selected device only.                                                *)
SelectAndInitDevice(gpus) ==
    LET discrete == {i \in DOMAIN gpus : gpus[i] = "discrete"}
        first == CHOOSE i \in discrete : \A j \in discrete : i <= j
    IN IF discrete = {}
       THEN [found |-> Len(gpus), selected |-> 1]
       ELSE [found |-> first, selected |-> first]

\* the VulkanDevice objects of found_devices_, by place
DeviceNames ==
    <<"found_devices_[0]", "found_devices_[1]", "found_devices_[2]", "found_devices_[3]">>

\* VulkanDevice::Destroy
VulkanDeviceDestroy(present) ==
    <<Do("wait_idle", "VulkanDevice::WaitUntilIdle"),
      [op |-> "delete", what |-> "delete graphics_queue_", objs |-> {"graphics_queue_"}],
      [op |-> "delete", what |-> "delete transfer_queue_", objs |-> {"transfer_queue_"}],
      [op |-> "delete", what |-> "delete compute_queue_", objs |-> {"compute_queue_"}],
      [op |-> "delete", what |-> "delete present_queue_", objs |-> QueueObject(present)],
      Destroy("vkDestroyDevice", {"logical_device_"})>>

(* VulkanDevice::Destroy on a device that was found and not selected: its   *)
(* logical_device_ is VK_NULL_HANDLE and its queue pointers are nullptr.    *)
(* WaitUntilIdle passes the null handle to vkDeviceWaitIdle; a delete of    *)
(* nullptr and vkDestroyDevice(VK_NULL_HANDLE) do nothing.                  *)
UnselectedDeviceDestroy ==
    <<[op |-> "wait_idle", what |-> "VulkanDevice::WaitUntilIdle",
       objs |-> {"VK_NULL_HANDLE"}],
      [op |-> "delete", what |-> "delete graphics_queue_", objs |-> QueueObject("nullptr")],
      [op |-> "delete", what |-> "delete transfer_queue_", objs |-> QueueObject("nullptr")],
      [op |-> "delete", what |-> "delete compute_queue_", objs |-> QueueObject("nullptr")],
      [op |-> "delete", what |-> "delete present_queue_", objs |-> QueueObject("nullptr")],
      Do("call", "vkDestroyDevice(VK_NULL_HANDLE)")>>

\* the loop of VulkanRHI::Shutdown from found_devices_[i - 1] on: Destroy() on
\* the device, then its delete
RECURSIVE DestroyFoundDevices(_, _, _)
DestroyFoundDevices(i, devices, present) ==
    IF i > devices.found
    THEN <<>>
    ELSE (IF i = devices.selected
          THEN VulkanDeviceDestroy(present)
          ELSE UnselectedDeviceDestroy)
         \o <<[op |-> "delete", what |-> "delete found_devices_[i]",
               objs |-> {DeviceNames[i]}]>>
         \o DestroyFoundDevices(i + 1, devices, present)

(* VulkanRHI::Shutdown: every device of found_devices_ is destroyed and     *)
(* deleted, then the instance is shut down.                                 *)
(* VulkanInstance::DestroyDebugMessenger has a body only under              *)
(* _RENDER_DEBUG, as has SetupDebugMessenger; the sources define it         *)
(* nowhere, so no messenger exists and the call does nothing.               *)
ContextShutdown(present, gpus) ==
    DestroyFoundDevices(1, SelectAndInitDevice(gpus), present)
    \o <<Do("call", "VulkanInstance::DestroyDebugMessenger"),
         Destroy("vkDestroyInstance", {"instance_"})>>

\* VulkanApplication::Cleanup
ApplicationCleanup(present, gpus) == RendererCleanup \o ContextShutdown(present, gpus)

\* enable_validation_layers_ of Main.cpp: false under NDEBUG
ValidationLayersEnabled(b) == b = "debug"

\* the debug messenger SetupDebugMessenger of Main.cpp has created
HelloDebugMessenger(b) == IF ValidationLayersEnabled(b) THEN {"debug_messenger_"} ELSE {}

\* HelloTriangleApplication: the end of MainLoop and Cleanup
HelloCleanup(b) ==
    <<Do("wait_idle", "vkDeviceWaitIdle")>>
    \o HelloCleanUpSwapChain
    \o CleanupAfterSwapChain
    \o <<Destroy("vkDestroyDevice", {"logical_device_"})>>
    \o (IF ValidationLayersEnabled(b)
        THEN <<Destroy("DestroyDebugUtilsMessengerEXT", {"debug_messenger_"})>>
        ELSE <<>>)
    \o <<Destroy("vkDestroySurfaceKHR", {"surface_"}),
         Destroy("vkDestroyInstance", {"instance_"})>>

\* everything Init has built from the logical device
DeviceObjects ==
    SwapChainObjects
    \cup UNION {CleanupAfterSwapChain[i].objs : i \in DOMAIN CleanupAfterSwapChain}

\* the routines modelled, with their inputs
Routines ==
    {[name |-> "RecreateSwapChain", owner |-> o, inFlight |-> f] :
        o \in Impls, f \in SUBSET FramesInFlight}
    \cup {[name |-> "SingleTimeCommands", owner |-> o, inFlight |-> {}, user |-> u,
           supported |-> b] :
            o \in Impls, u \in OneShotUsers, b \in BOOLEAN}
    \cup {[name |-> "Cleanup", owner |-> "VulkanRenderer", inFlight |-> f, present |-> q,
           gpus |-> g] :
            f \in SUBSET FramesInFlight, q \in PresentAliases \ {"nullptr"},
            g \in GpuLists}
    \cup {[name |-> "Cleanup", owner |-> "HelloTriangleApplication", inFlight |-> f] :
            f \in SUBSET FramesInFlight}
    \cup {[name |-> "StagingUpload", owner |-> o, inFlight |-> {}, target |-> t,
           mapResult |-> r, linearBlit |-> b, checkEvaluates |-> e] :
            o \in Impls, t \in UploadTargets, r \in MapResults, b \in BOOLEAN,
            e \in BOOLEAN}

\* the steps of a routine
Program(r) ==
    CASE r.name = "RecreateSwapChain" /\ r.owner = "HelloTriangleApplication" ->
            HelloRecreateSwapChain
      [] r.name = "RecreateSwapChain" /\ r.owner = "VulkanRenderer" ->
            RendererRecreateSwapChain
      [] r.name = "SingleTimeCommands" -> SingleTimeCommands(r.user, r.supported)
      [] r.name = "StagingUpload" -> StagingUpload(r.owner, r.target, r.linearBlit)
      [] r.name = "Cleanup" /\ r.owner = "VulkanRenderer" ->
            ApplicationCleanup(r.present, r.gpus)
      [] r.name = "Cleanup" /\ r.owner = "HelloTriangleApplication" -> HelloCleanup(build)

\* the objects that exist when a routine is entered
ObjectsAtEntry(r) ==
    CASE r.name = "RecreateSwapChain" -> SwapChainObjects
      [] r.name = "SingleTimeCommands" -> {"command_pool_"}
      [] r.name = "StagingUpload" -> {"command_pool_"}
      [] r.name = "Cleanup" /\ r.owner = "VulkanRenderer" ->
            DeviceObjects \cup {"logical_device_", "surface_", "instance_",
                                "graphics_queue_", "compute_queue_", "transfer_queue_"}
                          \cup {DeviceNames[i] : i \in 1 .. SelectAndInitDevice(r.gpus).found}
      [] r.name = "Cleanup" /\ r.owner = "HelloTriangleApplication" ->
            DeviceObjects \cup HelloDebugMessenger(build)
                          \cup {"logical_device_", "surface_", "instance_"}

\* the routine has returned
Returned == routine # NoRoutine /\ proc = "running" /\ ip = Len(Program(routine)) + 1

(* The builds in which routine r is entered.  The routines of               *)
(* VulkanRenderer run during or after its Init, which a debug build does    *)
(* not get through; the argument of CHECK can only be compiled out where    *)
(* VulkanBuffer::Map is used outside a debug build.                         *)
RoutineReachable(r, b) ==
    /\ r.owner = "VulkanRenderer" => InitCompletes(r.owner, b)
    /\ r.name = "StagingUpload" /\ ~r.checkEvaluates =>
            r.owner = "VulkanRenderer" /\ b # "debug"

\* the state in which routine r is entered
RoutineStarts(r) ==
    /\ RoutineReachable(r, build)
    /\ routine = r
    /\ ip = 1
    /\ alive = ObjectsAtEntry(r)
    /\ gpuBusy = r.inFlight
    /\ mappedMem = {}
    /\ trace = <<>>

(* The routine's next call.  vkDeviceWaitIdle and vkQueueWaitIdle return    *)
(* once the GPU has completed everything submitted; a failed check halts a  *)
(* debug build (VulkanDevice::WaitUntilIdle checks logical_device_ against   *)
(* VK_NULL_HANDLE).  A memcpy through the pointer of a vkMapMemory that      *)
(* failed or was not called and a vkUnmapMemory of memory that is not        *)
(* mapped are undefined, and so are the delete of an object that was         *)
(* deleted before and vkDeviceWaitIdle on a device that does not exist: ub   *)
(* says whether the process dies or goes on.                                 *)
ExecStep(ub) ==
    /\ routine # NoRoutine
    /\ proc = "running"
    /\ ip \in DOMAIN Program(routine)
    /\ LET st == Program(routine)[ip]
           stagingMap == IF st.what = "VulkanBuffer::Map"
                         THEN Map("VulkanBuffer", build, FALSE, 0, routine.mapResult,
                                  FALSE, routine.checkEvaluates)
                         ELSE AfterVkMapMemory(FALSE, 0, routine.mapResult)
           noDevice == st.op = "wait_idle" /\ ~(st.objs \subseteq alive)
           undefined == \/ st.op \in {"memcpy", "unmap"} /\ ~(st.objs \subseteq mappedMem)
                        \/ st.op = "delete" /\ ~(st.objs \subseteq alive)
                        \/ noDevice
       IN /\ st.op \in {"wait_idle", "queue_wait_idle"} /\ ~noDevice => gpuBusy = {}
          /\ ub = "crash" => undefined
          /\ proc' = CASE st.op = "check_no_entry" /\ CheckNoEntryHalts(build) -> "halted"
                        [] noDevice /\ CheckHalts(build, FALSE) -> "halted"
                        [] st.op = "map" /\ stagingMap.outcome = "halt" -> "halted"
                        [] st.op = "throw" -> "exited"
                        [] undefined /\ ub = "crash" -> "crashed"
                        [] OTHER -> proc
          /\ alive' = CASE st.op \in {"destroy", "delete"} -> alive \ st.objs
                        [] st.op = "create" -> alive \cup st.objs
                        [] OTHER -> alive
          /\ gpuBusy' = IF st.op = "submit" THEN gpuBusy \cup st.objs ELSE gpuBusy
          /\ mappedMem' = CASE st.op = "map" /\ stagingMap.outcome = "mapped" ->
                                    mappedMem \cup st.objs
                            [] st.op = "unmap" -> mappedMem \ st.objs
                            [] OTHER -> mappedMem
          /\ trace' = Append(trace, [op |-> st.op, what |-> st.what, objs |-> st.objs,
                                     aliveBefore |-> alive, busyBefore |-> gpuBusy,
                                     mappedBefore |-> mappedMem])
    /\ ip' = ip + 1
    /\ UNCHANGED <<impl, build, pc, current_frame_, fences, inflight_images_, numImages,
                   pending, was_frame_buffer_resized_, framebuffer_size_, windowSize,
                   numResizes, swapExtent, frames, call>>
    /\ UNCHANGED <<cmdVars, selVars, memVars, routine>>

\* the GPU completes a submitted command buffer
GpuFinish(w) ==
    /\ routine # NoRoutine
    /\ w \in gpuBusy
    /\ gpuBusy' = gpuBusy \ {w}
    /\ UNCHANGED <<frameVars, build, cmdVars, selVars, memVars>>
    /\ UNCHANGED <<routine, ip, alive, mappedMem, trace>>

InitSeq ==
    /\ build \in Builds
    /\ FrameLoopIdle
    /\ NoCommandBuffer
    /\ NothingSelected
    /\ MemoryAfterAllocation("VulkanMemory")
    /\ \E r \in Routines : RoutineStarts(r)

NextSeq ==
    \/ \E ub \in {"crash", "continue"} : ExecStep(ub)
    \/ \E w \in gpuBusy : GpuFinish(w)

\* one routine run from entry to return, against the GPU
SpecSeq == InitSeq /\ [][NextSeq]_vars

(***************************************************************************)
(* Swapchain recreation                                                    *)
(***************************************************************************)
\* what is built from the swapchain or sized by its image count
SwapChainDependents == SwapChainObjects \ {"swap_chain_", "swap_chain_image_views_"}

\* the order in which recreation is to rebuild
RebuildOrder ==
    <<"CreateSwapChain", "CreateImageViews", "CreateRenderPass", "CreateGraphicsPipeline",
      "CreateColorResources", "CreateDepthResources", "CreateFramebuffers",
      "CreateUniformBuffers", "CreateDescriptorPool", "CreateDescriptorSets",
      "CreateCommandBuffers">>

\* the create calls made so far
CreatesDone == SelectSeq([i \in DOMAIN trace |-> trace[i].what],
                         LAMBDA w : \E k \in DOMAIN RebuildOrder : RebuildOrder[k] = w)

\* C22: a swapchain recreation waits for the device to be idle before it destroys
\* anything, destroys everything built from the swapchain (framebuffers, pipeline,
\* render pass, attachments, per-image buffers, descriptor pool, command buffers)
\* before the swapchain and its image views, builds the new swapchain only when
\* the old one is gone, rebuilds in the stated order, and has rebuilt everything
\* when it returns.
C22_RecreationOrder ==
    routine.name = "RecreateSwapChain" =>
        /\ \A i \in DOMAIN trace :
                /\ trace[i].op \in {"destroy", "create"} =>
                        /\ trace[1].op = "wait_idle"
                        /\ trace[i].busyBefore = {}
                /\ (trace[i].op = "destroy"
                    /\ trace[i].objs \cap {"swap_chain_", "swap_chain_image_views_"} # {})
                   => trace[i].aliveBefore \cap SwapChainDependents = {}
                /\ trace[i].what = "CreateSwapChain" =>
                        trace[i].aliveBefore \cap SwapChainObjects = {}
        /\ CreatesDone = SubSeq(RebuildOrder, 1, Len(CreatesDone))
        /\ (Returned => alive = SwapChainObjects /\ Len(CreatesDone) = Len(RebuildOrder))

(***************************************************************************)
(* One-shot command sequences                                              *)
(***************************************************************************)
\* the calls of a complete one-shot sequence, in order
OneShotOrder ==
    <<"vkAllocateCommandBuffers", "vkBeginCommandBuffer ONE_TIME_SUBMIT", "record",
      "vkEndCommandBuffer", "vkQueueSubmit graphics", "vkQueueWaitIdle graphics",
      "vkFreeCommandBuffers">>

\* the calls made so far, the recorded commands named "record"
OneShotCalls ==
    [i \in DOMAIN trace |-> IF trace[i].op = "record" THEN "record" ELSE trace[i].what]

\* C23: a one-shot command sequence allocates, begins with the one-time-submit
\* flag, records, ends, submits to the graphics queue, waits for the queue to be
\* idle and frees, in this order; the buffer is never freed while the GPU still
\* works on it, and when EndSingleTimeCommands returns the GPU has completed the
\* commands and the buffer is back in the pool.
C23_OneShotSequenceOrder ==
    routine.name = "SingleTimeCommands" =>
        /\ \/ OneShotCalls = SubSeq(OneShotOrder, 1, Len(trace))
           \/ /\ ~routine.supported
              /\ OneShotCalls = SubSeq(OneShotOrder, 1, 2) \o <<"std::invalid_argument">>
        /\ \A i \in DOMAIN trace :
                trace[i].op = "destroy" =>
                    /\ trace[i].objs \cap trace[i].busyBefore = {}
                    /\ \E j \in 1 .. (i - 1) : trace[j].op = "queue_wait_idle"
        /\ (Returned =>
                /\ gpuBusy = {}
                /\ "command_buffer" \notin alive
                /\ \E j \in DOMAIN trace :
                        trace[j].op = "submit" /\ "command_buffer" \in trace[j].objs)

\* CopyBuffer has run to its end: the copy was recorded, submitted and completed
C23_Witness ==
    /\ routine.name = "SingleTimeCommands"
    /\ routine.user = "CopyBuffer"
    /\ Returned
    /\ Len(trace) = 7
    /\ trace[3].what = "CopyBuffer"
    /\ trace[5].op = "submit"

(***************************************************************************)
(* Staging uploads                                                         *)
(***************************************************************************)
\* the steps that submit a copy out of the staging buffer: the submission that
\* follows the recording of CopyBuffer or CopyBufferToImage
CopySubmissions ==
    {i \in DOMAIN trace :
        /\ trace[i].op = "submit"
        /\ i > 2
        /\ trace[i - 2].op = "record"
        /\ trace[i - 2].what \in {"CopyBuffer", "CopyBufferToImage"}}

\* C24: in a staging upload the staging memory is unmapped before the copy is
\* submitted, the staging buffer and its memory are destroyed only after a copy
\* was submitted and the GPU has completed it, and when the upload function
\* returns the staging memory is neither mapped nor alive.
C24_StagingUnmappedBeforeCopyDestroyedAfter ==
    routine.name = "StagingUpload" =>
        /\ \A i \in CopySubmissions :
                /\ trace[i].mappedBefore = {}
                /\ \E j \in 1 .. (i - 1) : trace[j].op = "unmap"
        /\ \A i \in DOMAIN trace :
                (trace[i].op = "destroy"
                 /\ trace[i].objs \cap {"staging_buffer", "staging_memory"} # {})
                => /\ trace[i].busyBefore = {}
                   /\ trace[i].mappedBefore = {}
                   /\ \E j \in CopySubmissions : j < i
        /\ (Returned =>
                /\ mappedMem = {}
                /\ gpuBusy = {}
                /\ alive \cap {"staging_buffer", "staging_memory"} = {}
                /\ routine.target \in alive)

\* the texture upload has returned: the staging memory was mapped, filled and
\* unmapped, the copy to the image completed, the staging buffer is gone
C24_Witness ==
    /\ routine.name = "StagingUpload"
    /\ routine.target = "texture_image_"
    /\ routine.mapResult = "VK_SUCCESS"
    /\ Returned
    /\ \E i \in DOMAIN trace : trace[i].op = "memcpy" /\ trace[i].mappedBefore # {}
    /\ CopySubmissions # {}

(***************************************************************************)
(* Shutdown                                                                *)
(***************************************************************************)
\* C25: at shutdown everything built from the logical device (swapchain, image
\* views, framebuffers, pipeline, render pass, buffers, images, semaphores, fences,
\* command pool and command buffers) is destroyed before vkDestroyDevice is
\* called, and the device is destroyed before the instance.
C25_ChildrenDestroyedBeforeDevice ==
    routine.name = "Cleanup" =>
        \A i \in DOMAIN trace :
            /\ trace[i].what = "vkDestroyDevice" =>
                    trace[i].aliveBefore \cap DeviceObjects = {}
            /\ trace[i].what = "vkDestroyInstance" =>
                    "logical_device_" \notin trace[i].aliveBefore

(***************************************************************************)
(* The frame loop under the assumption that the GPU eventually completes   *)
(* every submission it was given.                                          *)
(***************************************************************************)
\* the GPU does not leave a pending submission unfinished forever
GpuEventuallyCompletes ==
    /\ WF_vars(\E p \in pending : GpuComplete(p))
    /\ WF_vars(GpuCompleteOneShot)

SpecLive == Init /\ [][Next]_vars /\ GpuEventuallyCompletes

\* DrawFrame stands in vkWaitForFences on the fence of its frame slot
ThrottleWaitBlocked ==
    /\ proc = "running"
    /\ pc = "idle"
    /\ ~ThrottleWaitDone(fences, current_frame_)

\* DrawFrame stands in vkWaitForFences on what it read from
\* inflight_images_[image_index], inside the vector or past its end
HazardWaitBlocked ==
    /\ proc = "running"
    /\ pc = "hazard"
    /\ ~HazardWaitDone(fences, call.hazardRef, call.badWait)

(* C26: provided the GPU eventually completes every submission, every      *)
(* fence wait of DrawFrame eventually returns: whenever DrawFrame stands    *)
(* in the wait on its slot fence, or in the wait on the fence the acquired  *)
(* image refers to, that wait ends.  This covers a slot used for the first  *)
(* time, a slot whose last frame was abandoned after an out-of-date         *)
(* acquire, and an image that refers to a slot fence reused since.          *)
C26_FenceWaitsEventuallyReturn ==
    /\ ThrottleWaitBlocked ~> ~ThrottleWaitBlocked
    /\ HazardWaitBlocked ~> ~HazardWaitBlocked

(***************************************************************************)
(* Per-image arrays across swapchain recreations                           *)
(***************************************************************************)
\* the fence references a DrawFrame call finds left over from before the
\* recreation it has just completed
ReferencesAcrossRecreation ==
    IF call.recreations >= 1 /\ call.returned
    THEN {j \in DOMAIN inflight_images_ : inflight_images_[j] # VK_NULL_HANDLE}
    ELSE {}

(* C27: the array of in-flight fence references always has exactly as many *)
(* entries as the swapchain has images, so every acquired image index is a  *)
(* valid index into it, also after recreations that change the image        *)
(* count; and when a recreation has completed no entry still refers to a    *)
(* fence of work submitted for the destroyed swapchain.                     *)
C27_PerImageArraysMatchImageCount ==
    /\ Len(inflight_images_) = numImages
    /\ (pc = "hazard" =>
          InflightImageIndex(current_frame_, call.image) + 1 \in DOMAIN inflight_images_)
    /\ ReferencesAcrossRecreation = {}

(***************************************************************************)
(* Resize notifications                                                    *)
(***************************************************************************)
\* the main loop keeps polling events and calling DrawFrame until it ends
MainLoopProgresses == WF_vars(Next)

SpecLoop == Init /\ [][Next]_vars /\ GpuEventuallyCompletes /\ MainLoopProgresses

\* the swapchain was built for the size of the k-th notification or a later one
\* (the window has the size of the latest)
RecreatedFor(k) ==
    \/ swapExtent = windowSize
    \/ \E j \in k .. MaxResizes : swapExtent = SizeAfter(j)

\* the main loop has ended other than by the handling of a resize: the window
\* was closed, or a submission or an access failed
LoopEnded == pc = "shutdown" \/ proc \in {"exited", "crashed"}

(* C28: no resize notification is lost.  Every notification delivered      *)
(* while frames are still to be drawn is eventually followed by a swapchain *)
(* recreation for a size at least as recent as the notified one, unless the *)
(* main loop ends first; and between two DrawFrame calls the pending-resize *)
(* flag is set whenever the swapchain has not been rebuilt for the latest   *)
(* notified size, so clearing it never discards an unhandled notification.  *)
C28_NoResizeNotificationLost ==
    /\ \A k \in 1 .. MaxResizes :
          (numResizes = k /\ frames < MaxFrames /\ ~LoopEnded)
              ~> (RecreatedFor(k) \/ LoopEnded)
    /\ [](proc = "running" /\ pc = "idle" /\ ~RecreatedFor(numResizes)
              => was_frame_buffer_resized_)

(***************************************************************************)
(* The queue objects of a device                                           *)
(***************************************************************************)
QueueObjects == {"graphics_queue_", "compute_queue_", "transfer_queue_"}

\* the steps executed so far that release queue object q
ReleasesOf(q) == {i \in DOMAIN trace : trace[i].op = "delete" /\ q \in trace[i].objs}

(* C29: VulkanDevice::Destroy releases each distinct queue object exactly  *)
(* once and destroys the logical device afterwards, also when the present   *)
(* queue pointer is an alias of the graphics, compute or transfer queue: no *)
(* delete is applied to a queue object that was already released, and when *)
(* vkDestroyDevice is reached every queue object has been released once.    *)
C29_EachQueueReleasedOnce ==
    routine # NoRoutine /\ routine.name = "Cleanup" /\ routine.owner = "VulkanRenderer" =>
        /\ \A q \in QueueObjects : Cardinality(ReleasesOf(q)) <= 1
        /\ \A i \in DOMAIN trace :
              /\ trace[i].op = "delete" => trace[i].objs \subseteq trace[i].aliveBefore
              /\ trace[i].what = "vkDestroyDevice" =>
                    /\ trace[i].aliveBefore \cap QueueObjects = {}
                    /\ \A q \in QueueObjects : Cardinality(ReleasesOf(q)) = 1

(***************************************************************************)
(* The result check at a Vulkan call site                                  *)
(***************************************************************************)
(* C30: in a debug build the result check applied at a Vulkan call site    *)
(* halts execution exactly when the wrapped call returned a non-success     *)
(* result and lets execution continue exactly when it returned VK_SUCCESS   *)
(* (observed at the check of vkAllocateCommandBuffers' result in the        *)
(* constructor of VulkanCommandBuffer: the handle is VK_NULL_HANDLE         *)
(* exactly when the allocation failed).                                     *)
C30_VerifyHaltsExactlyOnFailure ==
    build = "debug" /\ hist = <<>> =>
        (proc = "halted" <=> handle_ = VK_NULL_HANDLE)

====
